---------------------------- MODULE Spec2Model ----------------------------
(***************************************************************************)
(* Model of the two-stage ETF pipeline of research/ml_pipeline:            *)
(*   MissingData.clean            (preprocessing/preprocessing.py)         *)
(*   DailyOhlcvTransformer.transform (transformation/transformers/ohlcv.py)*)
(* A table is a record [cols, rows]: cols is the set of column names and   *)
(* rows a sequence of functions from cols to cells.  A cell is a record    *)
(* [k, n, d]: k is the kind of value, n/d its (rational) content.          *)
(***************************************************************************)
EXTENDS Integers, Sequences, FiniteSets, TLC

VARIABLES
    pc,          \* where the run is: "raw", "cleaned", "transformed", "failed"
    raw,         \* the table handed to clean
    cfg,         \* the MissingData configuration
    cleaned,     \* what clean returned: the table handed to transform
    params,      \* the DailyOhlcvParams of the transformer
    bench,       \* the benchmark series of the transformer
    pandas_pad,  \* whether the installed pandas pads in pct_change by default
    feat,        \* what transform returned
    alt,         \* a second table handed to transform (a second run)
    altfeat,     \* what transform returned for alt
    output,      \* what main has written to output.csv
    horizon,     \* the prediction horizon the feature lookup is called with
    selected     \* what the feature lookup returned

vars == <<pc, raw, cfg, cleaned, params, bench, pandas_pad, feat, alt, altfeat, output,
         horizon, selected>>

(***************************************************************************)
(* Bounds of the model.                                                    *)
(***************************************************************************)
\* the longest series of one symbol in a raw table.
MaxRows == 3
\* at most this many rows of a raw table are not complete, well-formed bars.
MaxDefects == 2
\* the longest series of one symbol in a table handed to transform alone.
MaxSeries == 3
\* the longest prediction horizon the feature lookup is called with.
MaxHorizon == 40

(***************************************************************************)
(* Cells.                                                                  *)
(***************************************************************************)
\* None / NaN / NaT: what pandas isna() answers True for.
Null == [k |-> "null", n |-> 0, d |-> 1]
\* float +inf / -inf (n is the sign).
PosInf == [k |-> "inf", n |-> 1, d |-> 1]
NegInf == [k |-> "inf", n |-> -1, d |-> 1]
Num(i) == [k |-> "num", n |-> i, d |-> 1]
\* a text value (ticker, sector), ordered by n as the strings are ordered.
Str(i) == [k |-> "str", n |-> i, d |-> 1]
\* a datetime64 value.
Dt(i) == [k |-> "dt", n |-> i, d |-> 1]
\* a date held as text: it parses to day i, and does not parse when i = 0.
DateStr(i) == [k |-> "dstr", n |-> i, d |-> 1]

IsNull(c) == c.k = "null"
IsInf(c) == c.k = "inf"
IsNum(c) == c.k = "num"

Abs(i) == IF i < 0 THEN -i ELSE i
Sign(i) == IF i < 0 THEN -1 ELSE IF i = 0 THEN 0 ELSE 1

RECURSIVE Gcd(_, _)
Gcd(a, b) == IF b = 0 THEN a ELSE Gcd(b, a % b)

\* the rational n/d (d # 0) in lowest terms with a positive denominator.
Rat(n, d) ==
    LET g == Gcd(Abs(n), Abs(d))
        s == IF d < 0 THEN -1 ELSE 1
    IN  [k |-> "num", n |-> (s * n) \div g, d |-> (s * d) \div g]

(***************************************************************************)
(* Column names of both stages (MissingData attributes, TransformConfig).  *)
(***************************************************************************)
group_col == "ticker"
date_col == "date"
volume_col == "volume"
price_cols == {"open", "high", "low", "close"}

\* the two optional columns the model lets a raw table carry: a numeric
\* non-price column and a text column.
ExtraNum == "x"
ExtraCat == "sector"

\* select_dtypes(include=[np.number]) and select_dtypes(include=["object",
\* "category"]) over the columns of the model.
NumberCols == price_cols \cup {volume_col, ExtraNum}
ObjectCols == {group_col, ExtraCat}

EmptyTable == [cols |-> {}, rows |-> <<>>]
\* what clean returned: the table, or the error it raised; branch records
\* which branch of clean produced the table.
NoResult == [status |-> "none", branch |-> "none", cols |-> {}, rows |-> <<>>]
SchemaError == [status |-> "SchemaError", branch |-> "none", cols |-> {}, rows |-> <<>>]
Ok(t, br) == [status |-> "ok", branch |-> br, cols |-> t.cols, rows |-> t.rows]
\* a table handed to transform directly, without a run of clean.
Given(t) == [status |-> "given", branch |-> "none", cols |-> t.cols, rows |-> t.rows]

(***************************************************************************)
(* Generic table helpers (pandas operations used by both stages).          *)
(***************************************************************************)
Indices(s) == 1..Len(s)

\* isna().any(axis=1) / isna().all(axis=1) over a set of columns.
AnyNull(r, cs) == \E c \in cs : IsNull(r[c])
AllNull(r, cs) == \A c \in cs : IsNull(r[c])

\* df.dropna(subset=cs)
DropNa(t, cs) ==
    [t EXCEPT !.rows = SelectSeq(t.rows, LAMBDA r : ~AnyNull(r, cs))]

\* sort key order of sort_values([symbol, date]): ascending, nulls last.
CellLE(a, b) == IF IsNull(b) THEN TRUE ELSE IF IsNull(a) THEN FALSE ELSE a.n <= b.n
CellEq(a, b) == (IsNull(a) /\ IsNull(b)) \/ (~IsNull(a) /\ ~IsNull(b) /\ a.n = b.n)
RowLE(a, b) ==
    IF CellEq(a[group_col], b[group_col])
    THEN CellLE(a[date_col], b[date_col])
    ELSE CellLE(a[group_col], b[group_col])

InsertRow(s, r) ==
    LET k == Cardinality({i \in Indices(s) : RowLE(s[i], r)})
    IN  SubSeq(s, 1, k) \o <<r>> \o SubSeq(s, k + 1, Len(s))

RECURSIVE SortedRows(_)
SortedRows(s) ==
    IF Len(s) <= 1 THEN s
    ELSE InsertRow(SortedRows(SubSeq(s, 1, Len(s) - 1)), s[Len(s)])

\* df.sort_values([group_col, date_col]) (stable on equal keys).
SortValues(t) == [t EXCEPT !.rows = SortedRows(t.rows)]

\* number of null cells and number of cells of a table.
NullCount(t) ==
    Cardinality({p \in Indices(t.rows) \X t.cols : IsNull(t.rows[p[1]][p[2]])})
Size(t) == Len(t.rows) * Cardinality(t.cols)

\* the indices of the rows of the group of row i (groupby(group_col)).
GroupOf(rows, i) == {j \in Indices(rows) : rows[j][group_col] = rows[i][group_col]}

(***************************************************************************)
(* MissingData.clean, step by step.                                        *)
(***************************************************************************)
\* _ensure_required_cols: the columns clean needs.
CleanRequired == {group_col, date_col} \cup price_cols
EnsureRequiredCols(t) == CleanRequired \subseteq t.cols

\* pd.to_datetime(errors="coerce") on one cell.
ToDatetimeCoerce(c) ==
    IF c.k = "dstr" THEN (IF c.n = 0 THEN Null ELSE Dt(c.n)) ELSE c

\* lines 54-55: the date column is coerced unless it is datetime64 already
\* (a datetime64 column holds only datetimes and NaT, which coercion keeps).
CoerceDates(t) ==
    [t EXCEPT !.rows =
        [i \in Indices(t.rows) |->
            [t.rows[i] EXCEPT ![date_col] = ToDatetimeCoerce(@)]]]

\* line 58: rows without a ticker or a valid date are dropped.
DropIdentity(t) == DropNa(CoerceDates(t), {group_col, date_col})

\* lines 32-35, 60: the ratio is kept as the pair <<null cells, cells>>.
MissRatio(t) == <<NullCount(DropIdentity(t)), Size(DropIdentity(t))>>

\* a variant of the comparison that leaves the boundary out.
RatioAbove(ratio, thr) ==
    IF ratio[2] = 0 THEN thr[1] < 0
    ELSE ratio[1] * thr[2] > thr[1] * ratio[2]

\* ratio >= threshold, threshold = thr[1]/thr[2]; a table with no cell has
\* ratio 0.0.
RatioAtLeast(ratio, thr) ==
    IF ratio[2] = 0 THEN thr[1] <= 0
    ELSE ratio[1] * thr[2] >= thr[1] * ratio[2]

\* lines 62-64: the rows whose four prices are all missing are dropped.
DropNoBar(t) ==
    [t EXCEPT !.rows = SelectSeq(t.rows, LAMBDA r : ~AllNull(r, price_cols))]

\* a variant of the forward fill that is not grouped by symbol.
FfillCellUngrouped(rows, i, c) ==
    LET prev == {j \in 1..i : ~IsNull(rows[j][c])}
    IN  IF prev = {} THEN Null
        ELSE rows[CHOOSE j \in prev : \A m \in prev : m <= j][c]

\* groupby(group_col)[price_cols].ffill() on a sorted table: the last
\* non-null value of the column at or before row i within the group of i.
FfillCell(rows, i, c) ==
    LET prev == {j \in GroupOf(rows, i) : j <= i /\ ~IsNull(rows[j][c])}
    IN  IF prev = {} THEN Null
        ELSE rows[CHOOSE j \in prev : \A m \in prev : m <= j][c]

FfillPrices(t) ==
    [t EXCEPT !.rows =
        [i \in Indices(t.rows) |->
            [c \in t.cols |->
                IF c \in price_cols THEN FfillCell(t.rows, i, c)
                ELSE t.rows[i][c]]]]

\* lines 66-81: the partial-price policy.
PricePolicy(t, policy) ==
    CASE policy = "drop_partial" -> DropNa(t, price_cols)
      [] policy = "ffill" -> DropNa(FfillPrices(SortValues(t)), price_cols)
      [] OTHER -> t

\* the table after the initial drops (lines 54-81).
AfterInitialDrops(t, policy) == PricePolicy(DropNoBar(DropIdentity(t)), policy)

\* the columns the strict branch never drops (lines 87-89).
StrictProtected(t) ==
    price_cols \cup {group_col, date_col} \cup ({volume_col} \cap t.cols)

\* df[c].isna().mean() >= threshold; the mean over no row is NaN, which
\* compares False.
ColNullCount(t, c) == Cardinality({i \in Indices(t.rows) : IsNull(t.rows[i][c])})
ColMissingAtLeast(t, c, thr) ==
    /\ Len(t.rows) > 0
    /\ ColNullCount(t, c) * thr[2] >= thr[1] * Len(t.rows)

\* lines 91-97: the non-protected columns the strict branch drops.
DropCols(t, thr) ==
    {c \in t.cols \ StrictProtected(t) : ColMissingAtLeast(t, c, thr)}

DropColumns(t, cs) ==
    [cols |-> t.cols \ cs,
     rows |-> [i \in Indices(t.rows) |-> [c \in t.cols \ cs |-> t.rows[i][c]]]]

\* a variant of the strict branch without its final dropna.
StrictBranchKeepRows(t, thr) == DropColumns(t, DropCols(t, thr))

\* lines 85-102: the strict branch, applied to the table after the drops.
StrictBranch(t, thr) ==
    LET kept == DropColumns(t, DropCols(t, thr))
    IN  DropNa(kept, kept.cols)

\* a variant that counts the prices among the columns to impute.
NumColsWithPrices(t) == (NumberCols \cap t.cols) \ {group_col, date_col}

\* lines 106-108: the numeric columns the normal branch imputes.
NumCols(t) == (NumberCols \cap t.cols) \ (price_cols \cup {group_col, date_col})

\* a variant of the normal branch that leaves the volume as it is.
FillVolumeSkipped(t) == t

\* lines 112-113: df[volume_col].fillna(0).
FillVolume(t) ==
    IF volume_col \notin t.cols THEN t
    ELSE [t EXCEPT !.rows =
            [i \in Indices(t.rows) |->
                [t.rows[i] EXCEPT ![volume_col] = IF IsNull(@) THEN Num(0) ELSE @]]]

\* the rows of the group of row i that hold a value in column c.
GroupValues(rows, i, c) == {j \in GroupOf(rows, i) : ~IsNull(rows[j][c])}

\* the k-th smallest value of column c over the rows J (values are whole
\* numbers in the raw tables of the model).
KthSmallest(rows, J, c, k) ==
    LET x == CHOOSE j \in J :
                /\ Cardinality({m \in J : rows[m][c].n < rows[j][c].n}) < k
                /\ k <= Cardinality({m \in J : rows[m][c].n <= rows[j][c].n})
    IN  rows[x][c].n

RECURSIVE SumOver(_, _, _)
SumOver(rows, J, c) ==
    IF J = {} THEN 0
    ELSE LET j == CHOOSE m \in J : TRUE
         IN  rows[j][c].n + SumOver(rows, J \ {j}, c)

\* groupby(...).transform("median"): NaN for a group with no value.
GroupMedian(rows, i, c) ==
    LET J == GroupValues(rows, i, c)
        m == Cardinality(J)
    IN  IF m = 0 THEN Null
        ELSE IF m % 2 = 1 THEN Num(KthSmallest(rows, J, c, (m + 1) \div 2))
        ELSE Rat(KthSmallest(rows, J, c, m \div 2)
                 + KthSmallest(rows, J, c, m \div 2 + 1), 2)

\* groupby(...).transform("mean").
GroupMean(rows, i, c) ==
    LET J == GroupValues(rows, i, c)
    IN  IF J = {} THEN Null ELSE Rat(SumOver(rows, J, c), Cardinality(J))

\* a variant of the numeric imputation that fills without sorting.
ImputeNumericUnsorted(t, how) ==
    [t EXCEPT !.rows =
        [i \in Indices(t.rows) |->
            [c \in t.cols |->
                IF c \in NumCols(t) /\ IsNull(t.rows[i][c])
                THEN (IF how = "median" THEN GroupMedian(t.rows, i, c)
                      ELSE GroupMean(t.rows, i, c))
                ELSE t.rows[i][c]]]]

\* lines 115-123: sort, then fill each numeric column with its group's
\* median or mean.
ImputeNumeric(t, how) ==
    IF NumCols(t) = {} THEN t
    ELSE LET s == SortValues(t)
         IN  [s EXCEPT !.rows =
                [i \in Indices(s.rows) |->
                    [c \in s.cols |->
                        IF c \in NumCols(t) /\ IsNull(s.rows[i][c])
                        THEN (IF how = "median" THEN GroupMedian(s.rows, i, c)
                              ELSE GroupMean(s.rows, i, c))
                        ELSE s.rows[i][c]]]]

\* a variant of _mode that takes, among the most frequent values, the one
\* met first in the group's rows.
GroupModeFirst(rows, i, c) ==
    LET J == GroupValues(rows, i, c)
        Freq(j) == Cardinality({m \in J : rows[m][c] = rows[j][c]})
        top == {j \in J : \A m \in J : Freq(m) <= Freq(j)}
    IN  IF J = {} THEN Null
        ELSE rows[CHOOSE j \in top : \A m \in top : j <= m][c]

\* _mode (lines 129-131): Series.mode(dropna=True) lists the most frequent
\* values in ascending order and iloc[0] takes the first of that list.
GroupMode(rows, i, c) ==
    LET J == GroupValues(rows, i, c)
        Freq(j) == Cardinality({m \in J : rows[m][c] = rows[j][c]})
        top == {j \in J : \A m \in J : Freq(m) <= Freq(j)}
    IN  IF J = {} THEN Null
        ELSE rows[CHOOSE j \in top : \A m \in top : rows[j][c].n <= rows[m][c].n][c]

\* lines 126-127: the text columns other than the ticker.
CatCols(t) == (ObjectCols \cap t.cols) \ {group_col}

\* lines 128-134.
ImputeCategorical(t) ==
    [t EXCEPT !.rows =
        [i \in Indices(t.rows) |->
            [c \in t.cols |->
                IF c \in CatCols(t) /\ IsNull(t.rows[i][c])
                THEN GroupMode(t.rows, i, c)
                ELSE t.rows[i][c]]]]

\* the normal branch up to, and without, its final dropna (lines 104-134).
Imputed(t, how) == ImputeCategorical(ImputeNumeric(FillVolume(t), how))

\* lines 104-140: the normal branch.
NormalBranch(t, how) == DropNa(Imputed(t, how), t.cols)

\* line 85: which branch clean takes.
IsStrict(t, c) == RatioAtLeast(MissRatio(t), c.threshold)

\* MissingData.clean (lines 40-140).
Clean(t, c) ==
    IF ~EnsureRequiredCols(t) THEN SchemaError
    ELSE IF IsStrict(t, c)
         THEN Ok(StrictBranch(AfterInitialDrops(t, c.price_policy), c.threshold),
                 "strict")
         ELSE Ok(NormalBranch(AfterInitialDrops(t, c.price_policy), c.numeric_impute),
                 "normal")

(***************************************************************************)
(* Float arithmetic of the feature columns: exact rationals, NaN (Null)    *)
(* and the two infinities, combined as IEEE division and subtraction do.   *)
(* Common factors are divided out before multiplying, to keep the          *)
(* intermediate integers small; the values are unchanged.                  *)
(***************************************************************************)
FNeg(a) ==
    IF IsNull(a) THEN Null
    ELSE IF IsInf(a) THEN [a EXCEPT !.n = -a.n]
    ELSE Rat(-a.n, a.d)

FAdd(a, b) ==
    IF IsNull(a) \/ IsNull(b) THEN Null
    ELSE IF IsInf(a) /\ IsInf(b) THEN (IF a.n = b.n THEN a ELSE Null)
    ELSE IF IsInf(a) THEN a
    ELSE IF IsInf(b) THEN b
    ELSE LET g == Gcd(a.d, b.d)
         IN  Rat(a.n * (b.d \div g) + b.n * (a.d \div g), a.d * (b.d \div g))

FSub(a, b) == FAdd(a, FNeg(b))

FMul(a, b) ==
    IF IsNull(a) \/ IsNull(b) THEN Null
    ELSE IF IsInf(a) \/ IsInf(b)
         THEN (IF a.n = 0 \/ b.n = 0 THEN Null
               ELSE [k |-> "inf", n |-> Sign(a.n) * Sign(b.n), d |-> 1])
    ELSE LET g == Gcd(Abs(a.n), b.d)
             h == Gcd(Abs(b.n), a.d)
         IN  Rat((a.n \div g) * (b.n \div h), (a.d \div h) * (b.d \div g))

\* a / b: x/0 is +-inf for x # 0 and NaN for x = 0.
FDiv(a, b) ==
    IF IsNull(a) \/ IsNull(b) THEN Null
    ELSE IF IsInf(b) THEN (IF IsInf(a) THEN Null ELSE Num(0))
    ELSE IF b.n = 0
         THEN (IF a.n = 0 THEN Null ELSE [k |-> "inf", n |-> Sign(a.n), d |-> 1])
    ELSE IF IsInf(a) THEN [k |-> "inf", n |-> Sign(a.n) * Sign(b.n), d |-> 1]
    ELSE LET g == Gcd(Abs(a.n), Abs(b.n))
             h == Gcd(a.d, b.d)
         IN  Rat((a.n \div g) * (b.d \div h), (a.d \div h) * (b.n \div g))

\* a > b on floats: False when either side is NaN.
FGt(a, b) ==
    /\ ~IsNull(a) /\ ~IsNull(b)
    /\ IF IsInf(a) THEN a.n = 1 /\ ~(IsInf(b) /\ b.n = 1)
       ELSE IF IsInf(b) THEN b.n = -1
       ELSE a.n * b.d > b.n * a.d

\* np.log of a float: the value is kept symbolic, as the logarithm of n/d.
FLog(a) ==
    IF IsNull(a) THEN Null
    ELSE IF IsInf(a) THEN (IF a.n = 1 THEN PosInf ELSE Null)
    ELSE IF a.n = 0 THEN NegInf
    ELSE IF a.n < 0 THEN Null
    ELSE IF a.n = a.d THEN Num(0)
    ELSE [k |-> "log", n |-> a.n, d |-> a.d]

\* sqrt(v) * sqrt(252) of a variance v >= 0, kept symbolic as sqrt(n/d).
FSqrt252(v) ==
    IF ~IsNum(v) THEN Null
    ELSE IF v.n = 0 THEN Num(0)
    ELSE [k |-> "sqrt", n |-> Rat(252 * v.n, v.d).n, d |-> Rat(252 * v.n, v.d).d]

(***************************************************************************)
(* Series operations (a series is a sequence of cells).                    *)
(***************************************************************************)
\* Series.shift(n)
Shift(s, n) == [i \in Indices(s) |-> IF i - n >= 1 THEN s[i - n] ELSE Null]

\* Series.replace(0, np.nan)
ReplaceZero(s) ==
    [i \in Indices(s) |-> IF IsNum(s[i]) /\ s[i].n = 0 THEN Null ELSE s[i]]

\* Series.ffill(): the last non-null value at or before i.
PadSeries(s) ==
    [i \in Indices(s) |->
        LET prev == {j \in 1..i : ~IsNull(s[j])}
        IN  IF prev = {} THEN Null ELSE s[CHOOSE j \in prev : \A m \in prev : m <= j]]

\* Series.pct_change(n): data / data.shift(n) - 1, where data is the series
\* forward-filled when the installed pandas still defaults fill_method to
\* "pad" (pandas < 3) and the series itself otherwise.
PctChange(s, n, pad) ==
    LET data == IF pad THEN PadSeries(s) ELSE s
    IN  [i \in Indices(s) |-> FSub(FDiv(data[i], Shift(data, n)[i]), Num(1))]

RECURSIVE SumCells(_, _)
SumCells(s, J) ==
    IF J = {} THEN Num(0)
    ELSE LET j == CHOOSE m \in J : TRUE
         IN  FAdd(s[j], SumCells(s, J \ {j}))

\* the trailing window of size w ending at i, and whether rolling(w) has a
\* full window of usable observations there (min_periods = w; rolling
\* treats an infinite value as missing).
Window(i, w) == (i - w + 1)..i
FullWindow(s, i, w) == i >= w /\ \A j \in Window(i, w) : IsNum(s[j])

\* a variant of the rolling mean with min_periods = 1.
RollingMeanPartial(s, w) ==
    [i \in Indices(s) |->
        LET J == {j \in Window(i, w) : j >= 1 /\ IsNum(s[j])}
        IN  IF J = {} THEN Null ELSE FDiv(SumCells(s, J), Num(Cardinality(J)))]

\* a variant of the rolling mean that lags by one row (the window ends on
\* the row before).
RollingMeanLagged(s, w) ==
    [i \in Indices(s) |->
        IF i > 1 /\ FullWindow(s, i - 1, w)
        THEN FDiv(SumCells(s, Window(i - 1, w)), Num(w))
        ELSE Null]

\* Series.rolling(w).mean()
RollingMean(s, w) ==
    [i \in Indices(s) |->
        IF FullWindow(s, i, w) THEN FDiv(SumCells(s, Window(i, w)), Num(w))
        ELSE Null]

\* Series.rolling(w).min()
RollingMin(s, w) ==
    [i \in Indices(s) |->
        IF FullWindow(s, i, w)
        THEN s[CHOOSE j \in Window(i, w) : \A m \in Window(i, w) : ~FGt(s[j], s[m])]
        ELSE Null]

\* sum of squares / products over a window.
Squares(s) == [i \in Indices(s) |-> FMul(s[i], s[i])]
Products(x, y) == [i \in Indices(x) |-> FMul(x[i], y[i])]

\* the sample variance (ddof = 1) of s over the window ending at i.
WindowVar(s, i, w) ==
    IF w < 2 \/ ~FullWindow(s, i, w) THEN Null
    ELSE LET sm == SumCells(s, Window(i, w))
             sq == SumCells(Squares(s), Window(i, w))
         IN  FDiv(FSub(sq, FDiv(FMul(sm, sm), Num(w))), Num(w - 1))

\* the sample covariance of x and y over the window ending at i.
WindowCov(x, y, i, w) ==
    IF w < 2 \/ ~FullWindow(x, i, w) \/ ~FullWindow(y, i, w) THEN Null
    ELSE LET sx == SumCells(x, Window(i, w))
             sy == SumCells(y, Window(i, w))
             sp == SumCells(Products(x, y), Window(i, w))
         IN  FDiv(FSub(sp, FDiv(FMul(sx, sy), Num(w))), Num(w - 1))

\* Series.rolling(w).std() * np.sqrt(252)
RollingVolatility(s, w) == [i \in Indices(s) |-> FSqrt252(WindowVar(s, i, w))]

\* cov / sqrt(var_x * var_y), kept as the signed square of the coefficient;
\* NaN when a variance is zero.
CorrCell(cov, vx, vy) ==
    IF IsNull(cov) \/ IsNull(vx) \/ IsNull(vy) THEN Null
    ELSE IF vx.n = 0 \/ vy.n = 0 THEN Null
    ELSE IF cov.n = 0 THEN Num(0)
    ELSE LET r2 == FDiv(FMul(cov, cov), FMul(vx, vy))
         IN  IF r2.n = r2.d THEN Num(Sign(cov.n))
             ELSE [k |-> "corr", n |-> Sign(cov.n) * r2.n, d |-> r2.d]

\* x.rolling(w).corr(y)
RollingCorr(x, y, w) ==
    [i \in Indices(x) |->
        CorrCell(WindowCov(x, y, i, w), WindowVar(x, i, w), WindowVar(y, i, w))]

\* Series.cummax()
CumMax(s) ==
    [i \in Indices(s) |->
        LET J == {j \in 1..i : ~IsNull(s[j])}
        IN  IF IsNull(s[i]) THEN Null
            ELSE s[CHOOSE j \in J : \A m \in J : ~FGt(s[m], s[j])]]

\* Series.ewm(span=w, adjust=False).mean() of a series without missing
\* values: y1 = x1, yi = (1 - a) y(i-1) + a xi with a = 2 / (w + 1).
RECURSIVE EwmAt(_, _, _)
EwmAt(s, w, i) ==
    IF i = 1 THEN s[1]
    ELSE FAdd(FMul(Rat(w - 1, w + 1), EwmAt(s, w, i - 1)), FMul(Rat(2, w + 1), s[i]))

EwmMean(s, w) == [i \in Indices(s) |-> EwmAt(s, w, i)]

\* element-wise arithmetic of two series.
SeriesSub(x, y) == [i \in Indices(x) |-> FSub(x[i], y[i])]
SeriesDiv(x, y) == [i \in Indices(x) |-> FDiv(x[i], y[i])]


(***************************************************************************)
(* DailyOhlcvTransformer.transform.                                        *)
(* The model covers the features the repository computes itself; the       *)
(* indicators delegated to the external ta library (RSI, stochastic, MACD, *)
(* Bollinger bands, ATR, OBV, CMF) and the columns derived from them are   *)
(* outside it.  Price and volume cells of the tables transform is run on   *)
(* hold numbers.                                                           *)
(***************************************************************************)
Range(s) == {s[i] : i \in DOMAIN s}

\* DailyOhlcvTransformer.required_columns
TransformRequired == {group_col, date_col, volume_col} \cup price_cols

\* the column c of the rows g as a float series.
Series(g, c) == [i \in Indices(g) |-> g[i][c]]

\* as_benchmark_series + reindex: the benchmark close on the date of a row.
BenchCloseAt(b, dcell) ==
    IF ~IsNull(dcell) /\ dcell.n \in DOMAIN b.close THEN Num(b.close[dcell.n])
    ELSE Null

\* bench_close.pct_change(1), computed on the benchmark's own dates before
\* it is aligned (line 208), then looked up on the date of a row.
BenchRetAt(b, dcell) ==
    IF IsNull(dcell) \/ dcell.n \notin DOMAIN b.close THEN Null
    ELSE LET prev == {e \in DOMAIN b.close : e < dcell.n}
         IN  IF prev = {} THEN Null
             ELSE FSub(FDiv(Num(b.close[dcell.n]),
                            Num(b.close[CHOOSE e \in prev : \A m \in prev : m <= e])),
                       Num(1))

BenchCloseAligned(g, b) == [i \in Indices(g) |-> BenchCloseAt(b, g[i][date_col])]
BenchRetAligned(g, b) == [i \in Indices(g) |-> BenchRetAt(b, g[i][date_col])]

\* a variant of the drawdown measured from the highest close of the whole
\* series instead of the running peak.
compute_drawdown_lookahead(close) ==
    LET J == {j \in Indices(close) : ~IsNull(close[j])}
        top == [i \in Indices(close) |->
                    IF IsNull(close[i]) THEN Null
                    ELSE close[CHOOSE j \in J : \A m \in J : ~FGt(close[m], close[j])]]
    IN  SeriesDiv(SeriesSub(close, top), ReplaceZero(top))

\* compute_drawdown
compute_drawdown(close) ==
    SeriesDiv(SeriesSub(close, CumMax(close)), ReplaceZero(CumMax(close)))

\* a variant of the comparison that counts equality as above.
AboveSeriesOrEqual(x, y) ==
    [i \in Indices(x) |->
        IF FGt(x[i], y[i]) \/ (IsNum(x[i]) /\ x[i] = y[i]) THEN Num(1) ELSE Num(0)]

\* (short_sma > long_sma).astype(int), (close > sma_w): a 0/1 series.
AboveSeries(x, y) == [i \in Indices(x) |-> IF FGt(x[i], y[i]) THEN Num(1) ELSE Num(0)]

\* the features of one symbol: f = <<family, a, b>> names a feature column,
\* g is the symbol's rows in date order.
FeatureSeries(g, f, b, pad) ==
    LET close == Series(g, "close")
        high == Series(g, "high")
        low == Series(g, "low")
        open_ == Series(g, "open")
        volume == Series(g, "volume")
        w == f[2]
    IN  CASE f[1] = "returns" -> PctChange(close, w, pad)
          [] f[1] = "log_returns" ->
                [i \in Indices(g) |-> FLog(FDiv(close[i], Shift(close, 1)[i]))]
          [] f[1] = "high_low_range" ->
                SeriesDiv(SeriesSub(high, low), ReplaceZero(close))
          [] f[1] = "close_open_change" ->
                SeriesDiv(SeriesSub(close, open_), ReplaceZero(open_))
          [] f[1] = "sma" -> RollingMean(close, w)
          [] f[1] = "ema" -> EwmMean(close, w)
          [] f[1] = "price_vs_sma" ->
                SeriesDiv(SeriesSub(close, RollingMean(close, w)),
                          ReplaceZero(RollingMean(close, w)))
          [] f[1] = "price_vs_ema" ->
                SeriesDiv(SeriesSub(close, EwmMean(close, w)),
                          ReplaceZero(EwmMean(close, w)))
          [] f[1] = "roc" ->
                [i \in Indices(g) |->
                    FMul(FDiv(FSub(close[i], Shift(close, w)[i]), Shift(close, w)[i]),
                         Num(100))]
          [] f[1] = "above" ->
                AboveSeries(RollingMean(close, w), RollingMean(close, f[3]))
          [] f[1] = "diff" ->
                SeriesDiv(SeriesSub(RollingMean(close, w), RollingMean(close, f[3])),
                          ReplaceZero(RollingMean(close, f[3])))
          [] f[1] = "volatility" -> RollingVolatility(PctChange(close, 1, pad), w)
          [] f[1] = "volume_sma" -> RollingMean(volume, w)
          [] f[1] = "volume_ratio" ->
                SeriesDiv(volume, ReplaceZero(RollingMean(volume, w)))
          [] f[1] = "drawdown" -> compute_drawdown(close)
          [] f[1] = "max_drawdown" -> RollingMin(compute_drawdown(close), w)
          [] f[1] = "trend_persistence" ->
                RollingMean(AboveSeries(close, RollingMean(close, w)), w)
          [] f[1] = "benchmark_close" -> BenchCloseAligned(g, b)
          [] f[1] = "benchmark_returns_1d" -> BenchRetAligned(g, b)
          [] f[1] = "excess_return" ->
                SeriesSub(PctChange(close, w, pad),
                          PctChange(BenchCloseAligned(g, b), w, pad))
          [] OTHER -> RollingCorr(PctChange(close, 1, pad), BenchRetAligned(g, b), w)

\* the feature columns transform adds, in the order it adds them.
Features(P, hasBench) ==
    {<<"returns", 1, 0>>, <<"returns", 21, 0>>, <<"returns", 63, 0>>,
     <<"log_returns", 1, 0>>, <<"high_low_range", 0, 0>>,
     <<"close_open_change", 0, 0>>, <<"drawdown", 0, 0>>}
      \cup {<<fam, w, 0>> :
                fam \in {"sma", "ema", "price_vs_sma", "price_vs_ema"},
                w \in Range(P.ma_windows)}
      \cup {<<"roc", w, 0>> : w \in Range(P.roc_periods)}
      \cup {<<fam, pr[1], pr[2]>> :
                fam \in {"above", "diff"},
                pr \in {q \in Range(P.ma_pairs) :
                            q[1] \in Range(P.ma_windows) /\ q[2] \in Range(P.ma_windows)}}
      \cup {<<"volatility", w, 0>> : w \in Range(P.volatility_windows)}
      \cup {<<fam, w, 0>> :
                fam \in {"volume_sma", "volume_ratio"}, w \in Range(P.volume_ma_windows)}
      \cup {<<"max_drawdown", w, 0>> : w \in Range(P.drawdown_windows)}
      \cup {<<"trend_persistence", w, 0>> : w \in Range(P.trend_persistence_windows)}
      \cup (IF hasBench
            THEN {<<"benchmark_close", 0, 0>>, <<"benchmark_returns_1d", 0, 0>>}
                   \cup {<<"excess_return", w, 0>> : w \in Range(P.excess_return_windows)}
                   \cup {<<"corr_to_benchmark", w, 0>> : w \in Range(P.corr_windows)}
            ELSE {})

\* a variant of the lookup that puts the horizon of 30 days with the long
\* horizons.
select_below_30(prediction_days) ==
    IF prediction_days < 30
    THEN <<"close", "volume", "returns_1d", "returns_21d", "sma_20", "sma_50",
           "ema_20", "ema_50", "price_vs_sma_20", "price_vs_sma_50",
           "sma_20_above_50", "rsi_14", "rsi_21", "roc_10", "roc_20",
           "macd", "macd_signal", "macd_diff", "volatility_20", "volatility_30",
           "bb_20_position", "bb_20_width", "atr_14_pct",
           "volume_ratio_20", "volume_ratio_50", "cmf_20",
           "max_drawdown_63", "trend_persistence_63">>
    ELSE <<"close", "volume", "returns_1d", "returns_63d",
           "sma_50", "sma_100", "sma_200", "ema_50", "ema_100",
           "price_vs_sma_50", "price_vs_sma_200", "sma_50_above_200",
           "rsi_21", "rsi_28", "roc_63", "macd", "macd_signal",
           "volatility_60", "volatility_126", "bb_30_position", "bb_30_width",
           "atr_21_pct", "volume_ratio_50", "volume_ratio_100", "obv_trend",
           "max_drawdown_126", "max_drawdown_252",
           "trend_persistence_126", "trend_persistence_252",
           "corr_to_benchmark_126", "excess_return_126">>

\* select_ohlcv_features_for_horizon (lines 101-146).
select_ohlcv_features_for_horizon(prediction_days) ==
    <<"close", "volume", "returns_1d">> \o
    (IF prediction_days <= 30
     THEN <<"returns_21d", "sma_20", "sma_50", "ema_20", "ema_50",
            "price_vs_sma_20", "price_vs_sma_50", "sma_20_above_50",
            "rsi_14", "rsi_21", "roc_10", "roc_20",
            "macd", "macd_signal", "macd_diff", "volatility_20", "volatility_30",
            "bb_20_position", "bb_20_width", "atr_14_pct",
            "volume_ratio_20", "volume_ratio_50", "cmf_20",
            "max_drawdown_63", "trend_persistence_63">>
     ELSE <<"returns_63d", "sma_50", "sma_100", "sma_200", "ema_50", "ema_100",
            "price_vs_sma_50", "price_vs_sma_200", "sma_50_above_200",
            "rsi_21", "rsi_28", "roc_63", "macd", "macd_signal",
            "volatility_60", "volatility_126", "bb_30_position", "bb_30_width",
            "atr_21_pct", "volume_ratio_50", "volume_ratio_100", "obv_trend",
            "max_drawdown_126", "max_drawdown_252",
            "trend_persistence_126", "trend_persistence_252",
            "corr_to_benchmark_126", "excess_return_126">>)

\* the columns transform takes from the ta library and from calculate_adx
\* (lines 248-267, 287-308, 316-325): their names; their values are outside
\* the model.
LibraryCols(P) ==
    {"stoch_k", "stoch_d", "macd", "macd_signal", "macd_diff",
     "obv", "obv_sma_20", "obv_trend", "cmf_20"}
      \cup {"rsi_" \o ToString(w) : w \in Range(P.rsi_periods)}
      \cup {"adx_" \o ToString(w) : w \in Range(P.adx_periods)}
      \cup {"bb_" \o ToString(w) \o "_" \o part :
                w \in Range(P.bb_periods),
                part \in {"upper", "lower", "middle", "position", "width"}}
      \cup {"atr_" \o ToString(w) \o suffix :
                w \in Range(P.atr_periods), suffix \in {"", "_pct"}}

\* the name of a feature column.
ColName(f) ==
    CASE f[1] = "returns" -> "returns_" \o ToString(f[2]) \o "d"
      [] f[1] = "log_returns" -> "log_returns_1d"
      [] f[1] \in {"high_low_range", "close_open_change", "drawdown",
                   "benchmark_close", "benchmark_returns_1d"} -> f[1]
      [] f[1] = "above" -> "sma_" \o ToString(f[2]) \o "_above_" \o ToString(f[3])
      [] f[1] = "diff" -> "sma_" \o ToString(f[2]) \o "_" \o ToString(f[3]) \o "_diff"
      [] OTHER -> f[1] \o "_" \o ToString(f[2])

FeatureCols(P, hasBench) == {ColName(f) : f \in Features(P, hasBench)}

\* pd.to_datetime(df[date_col]) (line 202): it raises on a text that is no
\* date.
DatesParse(t) == \A i \in Indices(t.rows) : t.rows[i][date_col] # DateStr(0)

\* a variant that parses the dates and leaves the rows in input order.
PreparedUnsorted(t) == CoerceDates(t)

\* a variant that sorts by symbol alone (a stable sort: the rows of a symbol
\* stay in input order).
RECURSIVE SortedBySymbol(_)
SortedBySymbol(s) ==
    IF Len(s) <= 1 THEN s
    ELSE LET h == SortedBySymbol(SubSeq(s, 1, Len(s) - 1))
             r == s[Len(s)]
             k == Cardinality({i \in Indices(h) : CellLE(h[i][group_col], r[group_col])})
         IN  SubSeq(h, 1, k) \o <<r>> \o SubSeq(h, k + 1, Len(h))
PreparedBySymbol(t) == [t EXCEPT !.rows = SortedBySymbol(CoerceDates(t).rows)]

\* lines 202-203: dates to datetime, rows sorted by symbol then date.
Prepared(t) == SortValues(CoerceDates(t))

\* df.groupby(symbol_col) leaves out the rows without a symbol.
Grouped(rows) == SelectSeq(rows, LAMBDA r : ~IsNull(r[group_col]))

\* a variant that computes over the whole table instead of the symbol's group.
SymbolDataUngrouped(rows, i) == [g |-> rows, p |-> i]

\* the rows one symbol's features are computed from: the group of row i of
\* the sorted rows (line 212), and the position of row i in it.
SymbolData(rows, i) ==
    LET G == GroupOf(rows, i)
        lo == CHOOSE j \in G : \A m \in G : j <= m
        hi == CHOOSE j \in G : \A m \in G : m <= j
    IN  [g |-> SubSeq(rows, lo, hi), p |-> i - lo + 1]

\* the feature cells of row i of the sorted rows.
FeatureRow(rows, i, P, b, pad) ==
    LET sd == SymbolData(rows, i)
    IN  [f \in Features(P, b.present) |-> FeatureSeries(sd.g, f, b, pad)[sd.p]]

ValueError ==
    [status |-> "ValueError", cols |-> {}, rows |-> <<>>, fcols |-> {}, frows |-> <<>>]
NoFeatures == [status |-> "none", cols |-> {}, rows |-> <<>>, fcols |-> {}, frows |-> <<>>]
FeatSchemaError ==
    [status |-> "SchemaError", cols |-> {}, rows |-> <<>>, fcols |-> {}, frows |-> <<>>]

\* a variant of transform that returns an empty table before it looks at the
\* columns.
TransformEmptyFirst(t, P, b, pad) ==
    IF Len(t.rows) = 0
    THEN [status |-> "ok", cols |-> t.cols, rows |-> t.rows, fcols |-> {}, frows |-> <<>>]
    ELSE IF ~(TransformRequired \subseteq t.cols) THEN FeatSchemaError
    ELSE IF ~DatesParse(t) THEN ValueError
    ELSE LET rows == Grouped(Prepared(t).rows)
         IN  IF Len(rows) = 0 THEN ValueError
             ELSE [status |-> "ok", cols |-> t.cols, rows |-> rows,
                   fcols |-> Features(P, b.present),
                   frows |-> [i \in Indices(rows) |-> FeatureRow(rows, i, P, b, pad)]]

\* a variant of transform without the early return on an empty table.
TransformNoEmptyReturn(t, P, b, pad) ==
    IF ~(TransformRequired \subseteq t.cols) THEN FeatSchemaError
    ELSE IF ~DatesParse(t) THEN ValueError
    ELSE LET rows == Grouped(Prepared(t).rows)
         IN  IF Len(rows) = 0 THEN ValueError
             ELSE [status |-> "ok", cols |-> t.cols, rows |-> rows,
                   fcols |-> Features(P, b.present),
                   frows |-> [i \in Indices(rows) |-> FeatureRow(rows, i, P, b, pad)]]

\* DailyOhlcvTransformer.transform (lines 192-359).  The result keeps the
\* input columns (cols, rows) and the feature columns (fcols, frows) side
\* by side: row i of the output is rows[i] extended by frows[i], and the
\* feature f is the column named ColName(f).
Transform(t, P, b, pad) ==
    IF ~(TransformRequired \subseteq t.cols) THEN FeatSchemaError
    ELSE IF Len(t.rows) = 0
         THEN [status |-> "ok", cols |-> t.cols, rows |-> t.rows,
               fcols |-> {}, frows |-> <<>>]
    ELSE IF ~DatesParse(t) THEN ValueError
    ELSE LET rows == Grouped(Prepared(t).rows)
         IN  IF Len(rows) = 0 THEN ValueError
             ELSE [status |-> "ok", cols |-> t.cols, rows |-> rows,
                   fcols |-> Features(P, b.present),
                   frows |-> [i \in Indices(rows) |-> FeatureRow(rows, i, P, b, pad)]]

(***************************************************************************)
(* The raw tables and configurations clean is run on.                      *)
(***************************************************************************)
TickerIds == {1, 2}

\* all sequences over S of length at most n.
SeqsUpTo(S, n) == UNION {[1..m -> S] : m \in 0..n}

\* the rows of two symbols, each row <<<<ticker, day>>, kind>>: the series s1
\* of ticker 1 on days 1..Len(s1), then the series s2 of ticker 2.
KeyedRows(s1, s2) ==
    [i \in 1..(Len(s1) + Len(s2)) |->
        IF i <= Len(s1) THEN <<<<1, i>>, s1[i]>>
        ELSE <<<<2, i - Len(s1)>>, s2[i - Len(s1)]>>]

\* the orders in which a table lists its rows: by symbol then day, the
\* reverse of that, and day by day with ticker 2 before ticker 1.
RowOrders == {"sorted", "reversed", "bydate"}
DayRank(r) == 2 * r[1][2] + (IF r[1][1] = 2 THEN 0 ELSE 1)
Arrange(L, order) ==
    CASE order = "sorted" -> L
      [] order = "reversed" -> [i \in Indices(L) |-> L[Len(L) + 1 - i]]
      [] OTHER ->
            [i \in Indices(L) |->
                L[CHOOSE j \in Indices(L) :
                    Cardinality({m \in Indices(L) : DayRank(L[m]) < DayRank(L[j])}) = i - 1]]

\* what is wrong with a raw row; the first row of ticker 1 is of any kind,
\* the rows after it of one of LaterKinds.
RawKinds ==
    {"full", "strdate", "baddate", "noticker", "nobar", "noclose",
     "novol", "nox", "nosector", "nobar_nox"}
BareKinds == {"full", "strdate", "baddate", "noticker", "nobar", "noclose"}
LaterKinds == {"full", "nobar", "noclose", "novol", "nox"}

PriceBase(tk, dt) == 100 * tk + 10 * dt

\* the cell of column c of the raw row of ticker tk, day dt and kind.
RawCell(c, tk, dt, kind) ==
    CASE c = "ticker" -> IF kind = "noticker" THEN Null ELSE Str(tk)
      [] c = "date" -> IF kind = "baddate" THEN DateStr(0)
                        ELSE IF kind = "strdate" THEN DateStr(dt) ELSE Dt(dt)
      [] c = "open" -> IF kind \in {"nobar", "nobar_nox"} THEN Null
                        ELSE Num(PriceBase(tk, dt) + 1)
      [] c = "high" -> IF kind \in {"nobar", "nobar_nox"} THEN Null
                        ELSE Num(PriceBase(tk, dt) + 3)
      [] c = "low" -> IF kind \in {"nobar", "nobar_nox"} THEN Null
                       ELSE Num(PriceBase(tk, dt))
      [] c = "close" -> IF kind \in {"nobar", "nobar_nox", "noclose"} THEN Null
                         ELSE Num(PriceBase(tk, dt) + 2)
      [] c = "volume" -> IF kind = "novol" THEN Null ELSE Num(1000 * dt)
      [] c = "x" -> IF kind \in {"nox", "nobar_nox"} THEN Null ELSE Num(dt * dt)
      [] OTHER -> IF kind = "nosector" THEN Null ELSE Str(1 + (dt % 2))

\* the raw tables: a series of at most n rows of ticker 1, at most one row
\* of ticker 2, in one of the row orders; RawTables keeps those with at most
\* d rows not "full".
OtherKinds(kinds) == kinds \cap {"full", "noclose", "nox", "novol"}
SeriesOf(kinds, n) ==
    {<<>>} \cup {<<k>> \o t : k \in kinds, t \in SeqsUpTo(kinds \cap LaterKinds, n - 1)}
DefectsOf(s) == Cardinality({i \in Indices(s) : s[i][2] # "full"})
TableSpecs(kinds, n) ==
    {Arrange(q, o) :
        q \in {KeyedRows(s1, s2) :
                    s1 \in SeriesOf(kinds, n), s2 \in SeqsUpTo(OtherKinds(kinds), 1)},
        o \in RowOrders}

MkTable(cols, s) ==
    [cols |-> cols,
     rows |-> [i \in 1..Len(s) |->
                [c \in cols |-> RawCell(c, s[i][1][1], s[i][1][2], s[i][2])]]]

FullCols == CleanRequired \cup {volume_col, ExtraNum, ExtraCat}

\* tables lacking one column: a complete bar per row.
LackingTables ==
    {MkTable(FullCols \ {c}, s) :
        c \in CleanRequired \cup {volume_col}, s \in {<<>>, <<<<<<1, 1>>, "full">>>>}}

RawTables(n, d) ==
    {MkTable(FullCols, s) : s \in {q \in TableSpecs(RawKinds, n) : DefectsOf(q) <= d}}
        \cup {MkTable(CleanRequired, s) :
                s \in {q \in TableSpecs(BareKinds, n) : DefectsOf(q) <= d}}
        \cup LackingTables

\* high_missing_threshold as the fraction <<numerator, denominator>>; the
\* class default is 0.20, and Configs adds the threshold 0.
Thresholds == {<<1, 5>>, <<1, 3>>}

Configs ==
    [threshold : Thresholds, price_policy : {"drop_partial", "ffill", "none"},
     numeric_impute : {"median"}]
        \cup [threshold : {<<1, 5>>}, price_policy : {"none"}, numeric_impute : {"mean"}]
        \cup [threshold : {<<0, 1>>}, price_policy : {"none"}, numeric_impute : {"median"}]

NoBench == [present |-> FALSE, close |-> <<>>]

(***************************************************************************)
(* The tables, parameters and benchmarks transform is run on.              *)
(***************************************************************************)
\* the window lists of DailyOhlcvParams, scaled down to the length of the
\* series of the model.
ScaledParams ==
    [ma_windows |-> <<2, 3>>, roc_periods |-> <<1, 2>>, ma_pairs |-> <<(<<2, 3>>)>>,
     volatility_windows |-> <<2>>, volume_ma_windows |-> <<2>>,
     drawdown_windows |-> <<2>>, trend_persistence_windows |-> <<2>>,
     corr_windows |-> <<2>>, excess_return_windows |-> <<1>>]

\* DailyOhlcvParams with its default lists (lines 14-38).
DefaultParams ==
    [ma_windows |-> <<10, 20, 50, 100, 200>>, rsi_periods |-> <<14, 21, 28>>,
     roc_periods |-> <<10, 20, 63>>, adx_periods |-> <<14, 20>>,
     volatility_windows |-> <<20, 30, 60, 126>>, bb_periods |-> <<20, 30>>,
     atr_periods |-> <<14, 21>>, volume_ma_windows |-> <<20, 50, 100>>,
     ma_pairs |-> <<(<<20, 50>>), (<<50, 200>>)>>,
     drawdown_windows |-> <<63, 126, 252>>,
     trend_persistence_windows |-> <<63, 126, 252>>,
     corr_windows |-> <<63, 126>>, excess_return_windows |-> <<63, 126>>]

FeatDates == 1..MaxSeries

\* the bars of a feature input row: open, high, low, close, volume.
Bars ==
    [zero |-> [open |-> 0, high |-> 0, low |-> 0, close |-> 0, volume |-> 0],
     up |-> [open |-> 1, high |-> 2, low |-> 1, close |-> 2, volume |-> 1],
     down |-> [open |-> 3, high |-> 3, low |-> 1, close |-> 1, volume |-> 2]]
BarKinds == {"zero", "up", "down"}
OddKinds == {"noticker", "baddate", "strdate"}

FeatCell(c, tk, dt, kind) ==
    CASE c = "ticker" -> IF kind = "noticker" THEN Null ELSE Str(tk)
      [] c = "date" -> IF kind = "baddate" THEN DateStr(0)
                        ELSE IF kind = "strdate" THEN DateStr(dt) ELSE Dt(dt)
      [] OTHER -> Num(Bars[IF kind \in OddKinds THEN "up" ELSE kind][c])

\* the series down, up, zero, down, ... cut after m bars, m <= n.
PatternSeries(n) ==
    {[i \in 1..m |-> IF i % 3 = 1 THEN "down" ELSE IF i % 3 = 2 THEN "up" ELSE "zero"] :
        m \in 0..n}

\* regular tables: any series of at most n1 bars of ticker 1 and a pattern
\* series of at most n2 bars of ticker 2, in one of the row orders.
RegularSpecs(n1, n2, orders) ==
    {Arrange(KeyedRows(s1, s2), o) :
        s1 \in SeqsUpTo(BarKinds, n1), s2 \in PatternSeries(n2), o \in orders}

\* the same with any series for ticker 2 and a pattern series for ticker 1.
MirrorSpecs(n1, n2, orders) ==
    {Arrange(KeyedRows(s1, s2), o) :
        s1 \in PatternSeries(n1), s2 \in SeqsUpTo(BarKinds, n2), o \in orders}

\* tables with one row that lacks its symbol or holds its date as text.
OddSpecs(n) ==
    {Arrange(KeyedRows(s1, s2), o) :
        s1 \in {q \in SeqsUpTo(BarKinds \cup OddKinds, n) :
                    Cardinality({i \in Indices(q) : q[i] \in OddKinds}) = 1},
        s2 \in PatternSeries(1), o \in RowOrders}

MkFeatTable(cols, s) ==
    [cols |-> cols,
     rows |-> [i \in 1..Len(s) |->
                [c \in cols |-> FeatCell(c, s[i][1][1], s[i][1][2], s[i][2])]]]

\* tables lacking one required column.
FeatLacking ==
    {MkFeatTable(TransformRequired \ {c}, s) :
        c \in TransformRequired, s \in {<<>>, <<<<<<1, 1>>, "up">>>>}}

FeatTables(n) ==
    {MkFeatTable(TransformRequired, s) :
        s \in RegularSpecs(n, n - 1, RowOrders) \cup OddSpecs(n - 1)}
      \cup FeatLacking

\* the tables transform is run on together with a benchmark.
BenchTables(n) ==
    {MkFeatTable(TransformRequired, s) : s \in RegularSpecs(n, 1, {"sorted"})}

\* the close of the benchmark on day d.
BenchValue(d) == d * d + 1

\* no benchmark, or a benchmark on all days or on all days but one.
Benchmarks ==
    {NoBench}
      \cup {[present |-> TRUE, close |-> [d \in D |-> BenchValue(d)]] :
                D \in {FeatDates} \cup {FeatDates \ {e} : e \in FeatDates}}

\* output.csv: not written, or written with the table t.
NoOutput == [written |-> FALSE, table |-> NoFeatures]
Written(t) == [written |-> TRUE, table |-> t]

(***************************************************************************)
(* Actions.                                                                *)
(***************************************************************************)
\* DataPreprocess.preprocess: the raw table is cleaned.
Preprocess ==
    /\ pc = "raw"
    /\ cleaned' = Clean(raw, cfg)
    /\ pc' = IF cleaned'.status = "ok" THEN "cleaned" ELSE "failed"
    /\ UNCHANGED <<raw, cfg, params, bench, pandas_pad, feat, alt, altfeat, output,
                 horizon, selected>>

\* DailyOhlcvTransformer.transform on the cleaned table.
TransformStep ==
    /\ pc = "cleaned"
    /\ cleaned.status \in {"ok", "given"}
    /\ feat' = Transform([cols |-> cleaned.cols, rows |-> cleaned.rows],
                         params, bench, pandas_pad)
    /\ pc' = IF feat'.status = "ok" THEN "transformed" ELSE "failed"
    /\ UNCHANGED <<raw, cfg, cleaned, params, bench, pandas_pad, alt, altfeat, output,
                 horizon, selected>>

\* a second run of transform, on the table alt, once the first is over.
TransformAlt ==
    /\ pc \in {"transformed", "failed"}
    /\ altfeat.status = "none"
    /\ altfeat' = Transform(alt, params, bench, pandas_pad)
    /\ altfeat'.status # "none"
    /\ UNCHANGED <<pc, raw, cfg, cleaned, params, bench, pandas_pad, feat, alt, output,
                 horizon, selected>>

\* a variant of the export that writes whatever the run holds when it ends,
\* failed or not.
ExportUnchecked ==
    /\ pc \in {"transformed", "failed"}
    /\ output' = Written(feat)
    /\ pc' = "exported"
    /\ UNCHANGED <<raw, cfg, cleaned, params, bench, pandas_pad, feat, alt, altfeat,
                 horizon, selected>>

\* main, line 20: transformed_data.to_csv("output.csv"), reached only when
\* preprocess and transform have both returned.
Export ==
    /\ pc = "transformed"
    /\ output' = Written(feat)
    /\ pc' = "exported"
    /\ UNCHANGED <<raw, cfg, cleaned, params, bench, pandas_pad, feat, alt, altfeat,
                 horizon, selected>>

\* a call of select_ohlcv_features_for_horizon.
SelectFeatures ==
    /\ selected = <<>>
    /\ selected' = select_ohlcv_features_for_horizon(horizon)
    /\ UNCHANGED <<pc, raw, cfg, cleaned, params, bench, pandas_pad, feat, alt, altfeat,
                   output, horizon>>

(***************************************************************************)
(* Specifications.                                                         *)
(***************************************************************************)
\* clean alone, on every raw table and configuration of the model.
InitClean ==
    /\ pc = "raw"
    /\ raw \in RawTables(MaxRows, MaxDefects)
    /\ cfg \in Configs
    /\ cleaned = NoResult
    /\ params = ScaledParams
    /\ bench = NoBench
    /\ pandas_pad = FALSE
    /\ feat = NoFeatures
    /\ alt = EmptyTable
    /\ altfeat = NoFeatures
    /\ output = NoOutput
    /\ horizon = 0
    /\ selected = <<>>

NextClean == Preprocess

SpecClean == InitClean /\ [][NextClean]_vars

DefaultCfg ==
    [threshold |-> <<1, 5>>, price_policy |-> "drop_partial", numeric_impute |-> "median"]

\* transform alone, on every feature input table and benchmark of the model.
InitTransform ==
    /\ pc = "cleaned"
    /\ raw = EmptyTable
    /\ cfg = DefaultCfg
    /\ params = ScaledParams
    /\ \/ /\ cleaned \in {Given(t) : t \in FeatTables(MaxSeries)}
          /\ bench = NoBench
          /\ pandas_pad = FALSE
       \/ /\ cleaned \in {Given(t) : t \in BenchTables(MaxSeries)}
          /\ bench \in Benchmarks \ {NoBench}
          /\ pandas_pad \in BOOLEAN
    /\ feat = NoFeatures
    /\ alt = EmptyTable
    /\ altfeat = NoFeatures
    /\ output = NoOutput
    /\ horizon = 0
    /\ selected = <<>>

NextTransform == TransformStep

SpecTransform == InitTransform /\ [][NextTransform]_vars

\* clean and transform on tables over every subset of the columns.
SchemaRows == {<<>>, <<<<<<1, 1>>, "full">>>>, <<<<<<1, 1>>, "nobar">>, <<<<1, 2>>, "full">>>>}
SchemaTables == {MkTable(cols, s) : cols \in SUBSET FullCols, s \in SchemaRows}
FeatSchemaTables ==
    {MkFeatTable(cols, s) :
        cols \in SUBSET TransformRequired, s \in {<<>>, <<<<<<1, 1>>, "up">>>>}}

InitSchema ==
    /\ params = ScaledParams
    /\ bench = NoBench
    /\ pandas_pad = FALSE
    /\ feat = NoFeatures
    /\ alt = EmptyTable
    /\ altfeat = NoFeatures
    /\ output = NoOutput
    /\ horizon = 0
    /\ selected = <<>>
    /\ \/ /\ pc = "raw"
          /\ raw \in SchemaTables
          /\ cfg \in Configs
          /\ cleaned = NoResult
       \/ /\ pc = "cleaned"
          /\ raw = EmptyTable
          /\ cfg = DefaultCfg
          /\ cleaned \in {Given(t) : t \in FeatSchemaTables}

NextSchema == Preprocess \/ TransformStep

SpecSchema == InitSchema /\ [][NextSchema]_vars

\* two runs of transform, on a table and on a second table that keeps the
\* rows of one symbol: only that symbol's rows, the rows in reverse order,
\* or the other symbol's bars replaced.
OnlySymbol(t, tk) ==
    [t EXCEPT !.rows = SelectSeq(t.rows, LAMBDA r : r[group_col] = Str(tk))]
Reversed(t) ==
    [t EXCEPT !.rows = [i \in Indices(t.rows) |-> t.rows[Len(t.rows) + 1 - i]]]
OthersFlat(t, tk) ==
    [t EXCEPT !.rows =
        [i \in Indices(t.rows) |->
            IF t.rows[i][group_col] = Str(tk) THEN t.rows[i]
            ELSE [c \in t.cols |->
                    IF c \in {group_col, date_col} THEN t.rows[i][c] ELSE Num(0)]]]
Variants(t) ==
    {Reversed(t)} \cup {OnlySymbol(t, tk) : tk \in TickerIds}
        \cup {OthersFlat(t, tk) : tk \in TickerIds}

IsoTables(n, orders) ==
    {MkFeatTable(TransformRequired, s) :
        s \in RegularSpecs(n, n, orders) \cup MirrorSpecs(n, n, orders)}

InitIso ==
    /\ pc = "cleaned"
    /\ raw = EmptyTable
    /\ cfg = DefaultCfg
    /\ params = ScaledParams
    /\ pandas_pad = FALSE
    /\ \/ /\ cleaned \in {Given(t) : t \in IsoTables(MaxSeries - 1, {"sorted", "bydate"})}
          /\ bench = NoBench
       \/ /\ cleaned \in {Given(t) : t \in IsoTables(MaxSeries - 1, {"sorted"})}
          /\ bench = [present |-> TRUE, close |-> [d \in FeatDates |-> BenchValue(d)]]
    /\ alt \in Variants([cols |-> cleaned.cols, rows |-> cleaned.rows])
    /\ feat = NoFeatures
    /\ altfeat = NoFeatures
    /\ output = NoOutput
    /\ horizon = 0
    /\ selected = <<>>

NextIso == TransformStep \/ TransformAlt

SpecIso == InitIso /\ [][NextIso]_vars

\* clean on tables of complete bars whose text column holds, row by row, no
\* value or one of two values: the series of ticker 1 has at most n rows,
\* that of ticker 2 at most one.
MkTextTable(s) ==
    [cols |-> FullCols,
     rows |-> [i \in 1..Len(s) |->
                [c \in FullCols |->
                    IF c # ExtraCat THEN RawCell(c, s[i][1][1], s[i][1][2], "full")
                    ELSE IF s[i][2] = 0 THEN Null ELSE Str(s[i][2])]]]
TextTables(n) ==
    {MkTextTable(Arrange(KeyedRows(s1, s2), o)) :
        s1 \in SeqsUpTo({0, 1, 2}, n), s2 \in SeqsUpTo({0, 1, 2}, 1),
        o \in RowOrders}

InitImpute ==
    /\ pc = "raw"
    /\ raw \in TextTables(MaxRows)
    /\ cfg \in {c \in Configs : c.price_policy = "none"}
    /\ cleaned = NoResult
    /\ params = ScaledParams
    /\ bench = NoBench
    /\ pandas_pad = FALSE
    /\ feat = NoFeatures
    /\ alt = EmptyTable
    /\ altfeat = NoFeatures
    /\ output = NoOutput
    /\ horizon = 0
    /\ selected = <<>>

SpecImpute == InitImpute /\ [][NextClean]_vars

\* transform on the series of one symbol under every choice of at most two
\* ma_windows among the windows up to n and every choice of ma_pairs: one
\* pair (w, w + 1), or the pair (1, 2) followed by (2, 3).
AscendingSeq(S) ==
    [i \in 1..Cardinality(S) |->
        CHOOSE x \in S : Cardinality({y \in S : y < x}) = i - 1]
PairParams(n) ==
    {[ScaledParams EXCEPT !.ma_windows = AscendingSeq(W), !.ma_pairs = prs] :
        W \in {V \in SUBSET (1..n) : Cardinality(V) <= 2},
        prs \in {<<(<<w, w + 1>>)>> : w \in 1..(n - 1)}
                    \cup {<<(<<1, 2>>), (<<2, 3>>)>>}}
PairTables(n) ==
    {MkFeatTable(TransformRequired, KeyedRows(s1, <<>>)) : s1 \in SeqsUpTo(BarKinds, n)}

InitPairs ==
    /\ pc = "cleaned"
    /\ raw = EmptyTable
    /\ cfg = DefaultCfg
    /\ params \in PairParams(MaxSeries)
    /\ cleaned \in {Given(t) : t \in PairTables(MaxSeries)}
    /\ bench = NoBench
    /\ pandas_pad = FALSE
    /\ feat = NoFeatures
    /\ alt = EmptyTable
    /\ altfeat = NoFeatures
    /\ output = NoOutput
    /\ horizon = 0
    /\ selected = <<>>

SpecPairs == InitPairs /\ [][NextTransform]_vars

\* transform on one symbol whose closes are any series of at most n values
\* among 0, 90, 100 and 120, or the first n + 1 closes of 100, 120, 90, 110,
\* with the windows 2 and 3 for the drawdown and the trend persistence.
CloseTable(s) ==
    [cols |-> TransformRequired,
     rows |-> [i \in 1..Len(s) |->
                [c \in TransformRequired |->
                    CASE c = "ticker" -> Str(1)
                      [] c = "date" -> Dt(i)
                      [] c = "volume" -> Num(1)
                      [] OTHER -> Num(s[i])]]]
CloseTables(n) ==
    {CloseTable(s) : s \in SeqsUpTo({0, 90, 100, 120}, n)}
        \cup {CloseTable(SubSeq(<<100, 120, 90, 110>>, 1, IF n < 3 THEN n + 1 ELSE 4))}

InitSeries ==
    /\ pc = "cleaned"
    /\ raw = EmptyTable
    /\ cfg = DefaultCfg
    /\ params = [ScaledParams EXCEPT !.drawdown_windows = <<2, 3>>,
                                     !.trend_persistence_windows = <<2, 3>>]
    /\ cleaned \in {Given(t) : t \in CloseTables(MaxSeries)}
    /\ bench = NoBench
    /\ pandas_pad = FALSE
    /\ feat = NoFeatures
    /\ alt = EmptyTable
    /\ altfeat = NoFeatures
    /\ output = NoOutput
    /\ horizon = 0
    /\ selected = <<>>

SpecSeries == InitSeries /\ [][NextTransform]_vars

\* main (lines 15-20): the default MissingData and DailyOhlcvParams, no
\* benchmark; the fetched table is any raw table of the model one row and
\* one defect short of the bounds.
Init ==
    /\ pc = "raw"
    /\ raw \in RawTables(MaxRows - 1, MaxDefects - 1)
    /\ cfg = DefaultCfg
    /\ cleaned = NoResult
    /\ params = ScaledParams
    /\ bench = NoBench
    /\ pandas_pad = FALSE
    /\ feat = NoFeatures
    /\ alt = EmptyTable
    /\ altfeat = NoFeatures
    /\ output = NoOutput
    /\ horizon = 0
    /\ selected = <<>>

Next == Preprocess \/ TransformStep \/ Export

Spec == Init /\ [][Next]_vars

\* the lookup called with every horizon from -1 to MaxHorizon, next to a
\* run of transform with the default parameters, with and without a
\* benchmark, on a table of one or two rows.
InitHorizon ==
    /\ pc = "cleaned"
    /\ raw = EmptyTable
    /\ cfg = DefaultCfg
    /\ cleaned \in {Given(CloseTable(s)) : s \in {<<100>>, <<100, 120>>}}
    /\ params = DefaultParams
    /\ bench \in {NoBench, [present |-> TRUE, close |-> [d \in FeatDates |-> BenchValue(d)]]}
    /\ pandas_pad = FALSE
    /\ feat = NoFeatures
    /\ alt = EmptyTable
    /\ altfeat = NoFeatures
    /\ output = NoOutput
    /\ horizon \in -1..MaxHorizon
    /\ selected = <<>>

NextHorizon == TransformStep \/ SelectFeatures

SpecHorizon == InitHorizon /\ [][NextHorizon]_vars

(***************************************************************************)
(* Properties.                                                             *)
(***************************************************************************)
\* C1: clean raises a schema error exactly when the table lacks one of
\* ticker, date, open, high, low, close, and transform exactly when it lacks
\* one of those or volume; the error is raised on an empty table too, and
\* nothing is returned or computed when it is raised.
C1_SchemaErrorFirst ==
    /\ cleaned.status \in {"ok", "SchemaError"} =>
            /\ cleaned.status = "SchemaError" <=>
                    ~({"ticker", "date", "open", "high", "low", "close"} \subseteq raw.cols)
            /\ cleaned.status = "SchemaError" =>
                    /\ Len(cleaned.rows) = 0
                    /\ cleaned.cols = {}
                    /\ pc = "failed"
                    /\ feat = NoFeatures
    /\ feat.status # "none" =>
            /\ feat.status = "SchemaError" <=>
                    ~({"ticker", "date", "open", "high", "low", "close", "volume"}
                            \subseteq cleaned.cols)
            /\ feat.status = "SchemaError" =>
                    /\ Len(feat.rows) = 0
                    /\ Len(feat.frows) = 0
                    /\ pc = "failed"

\* transform has raised the schema error on an empty table.
C1_Witness ==
    /\ pc = "failed"
    /\ feat.status = "SchemaError"
    /\ Len(cleaned.rows) = 0
    /\ cleaned.cols # {}

\* the number of rows of ticker tk.
CountOf(rows, tk) ==
    Cardinality({i \in Indices(rows) : rows[i][group_col] = Str(tk)})

\* rows ascending by symbol, then date.
Ascending(rows) ==
    \A i, j \in Indices(rows) : i < j => RowLE(rows[i], rows[j])

\* the raw rows with their dates parsed.
RawParsed == CoerceDates(raw).rows

\* the raw table has every required column, only valid dates and no null.
NoNullRaw ==
    /\ EnsureRequiredCols(raw)
    /\ \A i \in Indices(RawParsed) : \A c \in raw.cols : ~IsNull(RawParsed[i][c])

\* C2 as stated: a table with no null cell cleaned under policy "none"
\* comes back with the same columns and the same rows in the same order.
C2_Unchanged ==
    (pc = "cleaned" /\ cfg.price_policy = "none" /\ NoNullRaw) =>
        /\ cleaned.cols = raw.cols
        /\ cleaned.rows = RawParsed

\* C2: a table with no null cell cleaned under policy "none" and a
\* threshold above 0 comes back with the same columns and the same rows and
\* cell values (dates as parsed), in input order when it has no numeric
\* column besides the prices, and sorted by symbol then date when it has one
\* (volume included).
C2_SameRowsSortedWhenNumeric ==
    (pc = "cleaned" /\ cfg.price_policy = "none" /\ cfg.threshold[1] > 0 /\ NoNullRaw) =>
        /\ cleaned.cols = raw.cols
        /\ Len(cleaned.rows) = Len(RawParsed)
        /\ \A i \in Indices(RawParsed) :
                \E j \in Indices(cleaned.rows) : cleaned.rows[j] = RawParsed[i]
        /\ IF raw.cols \cap {"volume", "x"} = {}
           THEN cleaned.rows = RawParsed
           ELSE Ascending(cleaned.rows)

\* a table with a volume column and no null, listed out of order, was
\* cleaned under policy "none".
C2_Witness ==
    /\ pc = "cleaned"
    /\ cfg.price_policy = "none"
    /\ cfg.threshold[1] > 0
    /\ NoNullRaw
    /\ "volume" \in raw.cols
    /\ Len(raw.rows) >= 2
    /\ ~Ascending(RawParsed)
    /\ Len(cleaned.rows) = Len(raw.rows)

\* the rows clean's branch starts from.
Survivors == AfterInitialDrops(raw, cfg.price_policy).rows

\* the null cell of column c in row i of the surviving rows V is filled by
\* the normal branch: volume always, a numeric or text column when the
\* symbol of the row has a value in it.
Fillable(V, i, c) ==
    \/ c = "volume"
    \/ /\ c \in {"x", "sector"}
       /\ \E j \in Indices(V) : V[j]["ticker"] = V[i]["ticker"] /\ ~IsNull(V[j][c])

\* the columns the strict branch drops, their null share taken over rows.
HighMissingCols(rows) ==
    {c \in raw.cols \ {"ticker", "date", "open", "high", "low", "close", "volume"} :
        /\ Len(rows) > 0
        /\ Cardinality({i \in Indices(rows) : IsNull(rows[i][c])}) * cfg.threshold[2]
                >= cfg.threshold[1] * Len(rows)}

\* row i of the surviving rows V still holds a null after its branch, which
\* drops the columns D when it is the strict one.
StillNull(V, D, i) ==
    \E c \in raw.cols :
        /\ IsNull(V[i][c])
        /\ IF cleaned.branch = "strict" THEN c \notin D ELSE ~Fillable(V, i, c)

\* C8 as stated: every symbol has as many rows in the output as survive the
\* initial drops.
C8_RowCountKept ==
    pc = "cleaned" =>
        LET V == Survivors
        IN  \A tk \in TickerIds : CountOf(cleaned.rows, tk) = CountOf(V, tk)

\* C8: every symbol has as many rows in the output as it has rows that
\* survive the initial drops and hold no null once the strict branch has
\* dropped its columns or the normal branch has filled what it can; the
\* final null drop of either branch removes the others.
C8_RowCountAfterNullDrop ==
    pc = "cleaned" =>
        LET V == Survivors
            D == HighMissingCols(V)
        IN  \A tk \in TickerIds :
                /\ CountOf(cleaned.rows, tk) =
                        Cardinality({i \in Indices(V) :
                            V[i][group_col] = Str(tk) /\ ~StillNull(V, D, i)})
                /\ CountOf(cleaned.rows, tk) <= CountOf(V, tk)

\* the strict branch removed a row that had survived the initial drops.
C8_Witness ==
    /\ pc = "cleaned"
    /\ cleaned.branch = "strict"
    /\ Len(cleaned.rows) >= 1
    /\ \E tk \in TickerIds : CountOf(cleaned.rows, tk) < CountOf(Survivors, tk)

\* the rows with a symbol and a valid date, by symbol then date.
Series9 == SortedRows(DropIdentity(raw).rows)

\* the most recent value of column c at or before row i of the series S
\* within the symbol of that row.
LastValue(S, i, c) ==
    LET prev == {j \in 1..i : S[j]["ticker"] = S[i]["ticker"] /\ ~IsNull(S[j][c])}
    IN  IF prev = {} THEN Null
        ELSE S[CHOOSE j \in prev : \A m \in prev : m <= j][c]

Prices == {"open", "high", "low", "close"}

\* row j of the output is row i of S with its prices filled forward.
FilledFrom(S, j, i) ==
    /\ cleaned.rows[j]["ticker"] = S[i]["ticker"]
    /\ cleaned.rows[j]["date"] = S[i]["date"]
    /\ \A c \in Prices : cleaned.rows[j][c] = LastValue(S, i, c)

\* row i of S has a value to fill each price with and no null in another
\* column.
CanBeFilled(S, i) ==
    /\ \A c \in Prices : ~IsNull(LastValue(S, i, c))
    /\ \A c \in raw.cols \ Prices : ~IsNull(S[i][c])

\* C9 as stated: under forward fill every row whose prices all have a value
\* at or before it in its symbol is kept, with its prices filled forward.
C9_FillKeepsEveryRow ==
    (pc = "cleaned" /\ cfg.price_policy = "ffill") =>
        LET S == Series9
        IN  \A i \in Indices(S) :
                CanBeFilled(S, i) => \E j \in Indices(cleaned.rows) : FilledFrom(S, j, i)

\* C9: under forward fill a row that holds at least one price is kept with
\* every null price replaced by the most recent earlier value of that field
\* in its own symbol, and dropped only when a field has no such value; a row
\* whose four prices are all null is dropped before the fill and never
\* filled.
C9_FillAfterNoBarDrop ==
    (pc = "cleaned" /\ cfg.price_policy = "ffill") =>
        LET S == Series9
        IN  /\ \A i \in Indices(S) :
                    (CanBeFilled(S, i) /\ \E c \in Prices : ~IsNull(S[i][c])) =>
                        \E j \in Indices(cleaned.rows) : FilledFrom(S, j, i)
            /\ \A j \in Indices(cleaned.rows) :
                    \E i \in Indices(S) :
                        /\ FilledFrom(S, j, i)
                        /\ \E c \in Prices : ~IsNull(S[i][c])

\* a close missing on two days in a row was filled from the day before them.
C9_Witness ==
    /\ pc = "cleaned"
    /\ cfg.price_policy = "ffill"
    /\ LET S == Series9
       IN  \E i \in Indices(S) :
                /\ i >= 3
                /\ S[i]["ticker"] = S[i - 2]["ticker"]
                /\ ~IsNull(S[i - 2]["close"])
                /\ IsNull(S[i - 1]["close"])
                /\ IsNull(S[i]["close"])
                /\ \E j \in Indices(cleaned.rows) :
                        /\ FilledFrom(S, j, i)
                        /\ cleaned.rows[j]["close"] = S[i - 2]["close"]

\* the rows with a symbol and a valid date, in input order.
IdentityRows ==
    SelectSeq(RawParsed, LAMBDA r : ~IsNull(r["ticker"]) /\ ~IsNull(r["date"]))

\* the null cells and the cells of those rows.
NullCells ==
    Cardinality({q \in Indices(IdentityRows) \X raw.cols : IsNull(IdentityRows[q[1]][q[2]])})
Cells == Len(IdentityRows) * Cardinality(raw.cols)

\* null cells / cells >= threshold, the ratio of a table with no cell being 0.
HighMissing ==
    IF Cells = 0 THEN cfg.threshold[1] = 0
    ELSE NullCells * cfg.threshold[2] >= cfg.threshold[1] * Cells

\* the rows restricted to the columns other than cs, those with a null left out.
WithoutNulls(rows, cs) ==
    SelectSeq([i \in Indices(rows) |-> [c \in raw.cols \ cs |-> rows[i][c]]],
              LAMBDA r : \A c \in raw.cols \ cs : ~IsNull(r[c]))

\* C10 as stated: the strict branch is taken exactly when null cells / cells
\* >= threshold; it drops the unprotected columns whose null share in the
\* input table is >= threshold, then the rows with a null, and fills nothing.
C10_ColumnShareOfInput ==
    pc = "cleaned" =>
        /\ cleaned.branch = "strict" <=> HighMissing
        /\ cleaned.branch = "strict" =>
                /\ cleaned.cols = raw.cols \ HighMissingCols(raw.rows)
                /\ cleaned.rows = WithoutNulls(Survivors, HighMissingCols(raw.rows))

\* C10: the strict branch is taken exactly when null cells / cells >=
\* threshold, measured after the identity drop; it drops the unprotected
\* columns whose null share over the rows that survive the initial drops is
\* >= threshold, then the rows with a null, and fills nothing.
C10_ColumnShareOfSurvivors ==
    pc = "cleaned" =>
        /\ cleaned.branch = "strict" <=> HighMissing
        /\ cleaned.branch = "strict" =>
                LET V == Survivors
                IN  /\ cleaned.cols = raw.cols \ HighMissingCols(V)
                    /\ cleaned.rows = WithoutNulls(V, HighMissingCols(V))

\* the strict branch dropped a column and returned a row.
C10_Witness ==
    /\ pc = "cleaned"
    /\ cleaned.branch = "strict"
    /\ "x" \in raw.cols \ cleaned.cols
    /\ Len(cleaned.rows) >= 1

\* the rows of the symbol of output row i, and the place of row i among them.
SymbolRows(i) ==
    SelectSeq(feat.rows, LAMBDA r : r["ticker"] = feat.rows[i]["ticker"])
Place(i) ==
    Cardinality({j \in 1..i : feat.rows[j]["ticker"] = feat.rows[i]["ticker"]})

\* the close n rows before output row i in its symbol.
CloseBefore(i, n) ==
    IF Place(i) > n THEN SymbolRows(i)[Place(i) - n]["close"] ELSE Null

\* the highest close of the symbol up to output row i.
PeakClose(i) ==
    LET g == SymbolRows(i)
    IN  g[CHOOSE j \in 1..Place(i) :
            \A m \in 1..Place(i) : g[m]["close"].n <= g[j]["close"].n]["close"]

\* the denominator of the quotient feature f on output row i; Null for a
\* feature that is no quotient of the row's own series.
Denominator(i, f) ==
    CASE f[1] \in {"returns", "roc", "excess_return"} -> CloseBefore(i, f[2])
      [] f[1] = "log_returns" -> CloseBefore(i, 1)
      [] f[1] = "high_low_range" -> feat.rows[i]["close"]
      [] f[1] = "close_open_change" -> feat.rows[i]["open"]
      [] f[1] = "price_vs_sma" -> feat.frows[i][<<"sma", f[2], 0>>]
      [] f[1] = "price_vs_ema" -> feat.frows[i][<<"ema", f[2], 0>>]
      [] f[1] = "diff" -> feat.frows[i][<<"sma", f[3], 0>>]
      [] f[1] = "volume_ratio" -> feat.frows[i][<<"volume_sma", f[2], 0>>]
      [] f[1] = "drawdown" -> PeakClose(i)
      [] OTHER -> Null

\* C3 as stated: a quotient feature is null on every row where its
\* denominator is exactly zero.
C3_ZeroDenominatorNull ==
    feat.status = "ok" =>
        \A i \in Indices(feat.frows) : \A f \in feat.fcols :
            Denominator(i, f) = Num(0) => IsNull(feat.frows[i][f])

\* the window a feature's warm-up is counted from; 0 for the other features.
WarmupWindow(f) ==
    CASE f[1] \in {"sma", "ema", "price_vs_sma", "price_vs_ema", "volatility",
                   "volume_sma", "volume_ratio", "max_drawdown", "trend_persistence"}
            -> f[2]
      [] f[1] \in {"above", "diff"} -> f[3]
      [] OTHER -> 0

\* C4 as stated: every feature that depends on a window W is null on the
\* first W-1 rows of every symbol.
C4_WarmupNullAll ==
    feat.status = "ok" =>
        \A i \in Indices(feat.frows) : \A f \in feat.fcols :
            Place(i) <= WarmupWindow(f) - 1 => IsNull(feat.frows[i][f])

\* C4: the first W-1 rows of a symbol are null in sma_W, price_vs_sma_W,
\* sma_S_L_diff (window L), volatility_W, volume_sma_W, volume_ratio_W,
\* max_drawdown_W and trend_persistence_W; ema_W has no warm-up and holds a
\* value on every row, the close itself on the first, price_vs_ema_W holds
\* one wherever ema_W is not zero, and sma_S_above_L holds 0 on the first L-1
\* rows.
C4_WarmupNullButEmaAndAbove ==
    feat.status = "ok" =>
        \A i \in Indices(feat.frows) : \A f \in feat.fcols :
            /\ (Place(i) <= WarmupWindow(f) - 1
                    /\ f[1] \notin {"ema", "price_vs_ema", "above"}) =>
                        IsNull(feat.frows[i][f])
            /\ f[1] = "ema" =>
                    /\ ~IsNull(feat.frows[i][f])
                    /\ Place(i) = 1 => feat.frows[i][f] = feat.rows[i]["close"]
            /\ (f[1] = "price_vs_ema" /\ feat.frows[i][<<"ema", f[2], 0>>] # Num(0)) =>
                    ~IsNull(feat.frows[i][f])
            /\ (f[1] = "above" /\ Place(i) <= WarmupWindow(f) - 1) =>
                    feat.frows[i][f] = Num(0)

\* a symbol has three rows: sma_3 is null on the first two and holds a value
\* on the third.
C4_Witness ==
    /\ feat.status = "ok"
    /\ <<"sma", 3, 0>> \in feat.fcols
    /\ \E i \in Indices(feat.frows) :
            /\ Place(i) = 3
            /\ ~IsNull(feat.frows[i][<<"sma", 3, 0>>])
            /\ IsNull(feat.frows[i - 1][<<"sma", 3, 0>>])
            /\ IsNull(feat.frows[i - 2][<<"sma", 3, 0>>])
            /\ ~IsNull(feat.frows[i - 2][<<"ema", 3, 0>>])

\* the table transform was run on.
FeatInput == [cols |-> cleaned.cols, rows |-> cleaned.rows]

\* the days of the model the benchmark has no close for.
BenchGaps == FeatDates \ DOMAIN bench.close

\* the benchmark with a close on every day.
FullBench == [present |-> TRUE, close |-> [d \in FeatDates |-> BenchValue(d)]]

BenchFeatures == {f \in feat.fcols :
    f[1] \in {"benchmark_close", "benchmark_returns_1d", "excess_return",
              "corr_to_benchmark"}}

\* C5 as stated: when the benchmark lacks exactly one day d of a symbol's
\* series, the four benchmark features are null on the row of d and hold on
\* every other row the value they have under the benchmark that contains d.
C5_GapOnlyOnItsDate ==
    (feat.status = "ok" /\ bench.present /\ Cardinality(BenchGaps) = 1
        /\ \E i \in Indices(feat.rows) : feat.rows[i]["date"].n \in BenchGaps) =>
        LET full == Transform(FeatInput, params, FullBench, pandas_pad)
        IN  \A i \in Indices(feat.rows) : \A f \in BenchFeatures :
                IF feat.rows[i]["date"].n \in BenchGaps
                THEN IsNull(feat.frows[i][f])
                ELSE feat.frows[i][f] = full.frows[i][f]

\* the rows of the input that have a symbol, dates parsed.
SymbolInput ==
    SelectSeq(CoerceDates(FeatInput).rows, LAMBDA r : ~IsNull(r["ticker"]))

\* C7 as stated: the table transform returns has one row per input row, in
\* the order of the input.
C7_SameRowsSameOrder ==
    (feat.status = "ok" /\ Len(cleaned.rows) > 0) =>
        /\ Len(feat.frows) = Len(cleaned.rows)
        /\ feat.rows = CoerceDates(FeatInput).rows

\* C7: on a non-empty table with the required columns transform raises when
\* a date is no date or no row has a symbol; a table it returns has one row
\* per input row that has a symbol, none added, the rows without a symbol
\* left out, sorted by symbol and then date.
C7_SymbolRowsSorted ==
    (feat.status # "none" /\ Len(cleaned.rows) > 0
        /\ {"ticker", "date", "open", "high", "low", "close", "volume"}
                \subseteq cleaned.cols) =>
        /\ ((\E i \in Indices(cleaned.rows) : cleaned.rows[i]["date"] = DateStr(0))
                \/ Len(SymbolInput) = 0) => feat.status = "ValueError"
        /\ feat.status = "ok" =>
                /\ Len(feat.rows) = Len(SymbolInput)
                /\ Len(feat.frows) = Len(feat.rows)
                /\ \A i \in Indices(SymbolInput) :
                        \E j \in Indices(feat.rows) : feat.rows[j] = SymbolInput[i]
                /\ Ascending(feat.rows)

\* transform returned the rows of a table that listed them out of order.
C7_Witness ==
    /\ feat.status = "ok"
    /\ Len(cleaned.rows) >= 2
    /\ Len(feat.frows) = Len(cleaned.rows)
    /\ ~Ascending(cleaned.rows)
    /\ feat.rows # cleaned.rows

\* the rows of ticker tk, as a set.
RowsOf(rows, tk) == {rows[i] : i \in {j \in Indices(rows) : rows[j]["ticker"] = Str(tk)}}

\* C6: when two tables hold the same rows for a symbol, every row of that
\* symbol has the same feature values in the two outputs, whatever the rows
\* of the other symbols and the order of the rows.
C6_GroupingIsolation ==
    (feat.status = "ok" /\ altfeat.status = "ok") =>
        \A tk \in TickerIds :
            RowsOf(cleaned.rows, tk) = RowsOf(alt.rows, tk) =>
                /\ RowsOf(feat.rows, tk) = RowsOf(altfeat.rows, tk)
                /\ \A i \in Indices(feat.rows) : \A j \in Indices(altfeat.rows) :
                        (feat.rows[i]["ticker"] = Str(tk) /\ altfeat.rows[j] = feat.rows[i])
                            => altfeat.frows[j] = feat.frows[i]

\* both runs are done on tables that share the two rows of one symbol and
\* differ in the rows of the other.
C6_Witness ==
    /\ feat.status = "ok"
    /\ altfeat.status = "ok"
    /\ \E tk \in TickerIds :
            /\ RowsOf(cleaned.rows, tk) = RowsOf(alt.rows, tk)
            /\ Cardinality(RowsOf(feat.rows, tk)) >= 2
            /\ \E uk \in TickerIds :
                    /\ RowsOf(cleaned.rows, uk) # RowsOf(alt.rows, uk)
                    /\ RowsOf(cleaned.rows, uk) # {}
            /\ \E i \in Indices(feat.frows) :
                    /\ feat.rows[i]["ticker"] = Str(tk)
                    /\ ~IsNull(feat.frows[i][<<"sma", 2, 0>>])

\* the rows of the symbol of row i of V that hold the text v, and the texts
\* no other text of that symbol is more frequent than.
TextCount(V, i, v) ==
    Cardinality({j \in Indices(V) :
        V[j]["ticker"] = V[i]["ticker"] /\ V[j]["sector"] = v})
SymbolTexts(V, i) ==
    {V[j]["sector"] : j \in {m \in Indices(V) :
        V[m]["ticker"] = V[i]["ticker"] /\ ~IsNull(V[m]["sector"])}}
MostFrequent(V, i) ==
    {v \in SymbolTexts(V, i) :
        \A u \in SymbolTexts(V, i) : TextCount(V, i, u) <= TextCount(V, i, v)}

\* the one of the texts T met first in the rows of the symbol of row i of V.
FirstMet(V, i, T) ==
    LET J == {j \in Indices(V) : V[j]["ticker"] = V[i]["ticker"] /\ V[j]["sector"] \in T}
    IN  V[CHOOSE j \in J : \A m \in J : j <= m]["sector"]

\* the smallest of the texts T in the order of the strings.
SmallestText(T) == CHOOSE v \in T : \A u \in T : v.n <= u.n

\* the output rows that carry the key of row i of V.
OutputOf(V, i) ==
    {j \in Indices(cleaned.rows) :
        /\ cleaned.rows[j]["ticker"] = V[i]["ticker"]
        /\ cleaned.rows[j]["date"] = V[i]["date"]}

\* row i of V lacks its text and nothing else, and its symbol has a text.
TextToFill(V, i) ==
    /\ IsNull(V[i]["sector"])
    /\ \A c \in raw.cols \ {"sector"} : ~IsNull(V[i][c])
    /\ SymbolTexts(V, i) # {}

\* C11 as stated: in the normal branch a null text cell is filled with the
\* most frequent text of its symbol, and among several most frequent texts
\* with the one met first in the symbol's rows (taken in the order of the
\* input or in the order of the dates).
C11_TieFirstMet ==
    (pc = "cleaned" /\ cleaned.branch = "normal" /\ "sector" \in raw.cols) =>
        LET V == Survivors
            S == SortedRows(V)
        IN  \A i \in Indices(V) :
                TextToFill(V, i) =>
                    \E j \in OutputOf(V, i) :
                        \/ cleaned.rows[j]["sector"] = FirstMet(V, i, MostFrequent(V, i))
                        \/ \E k \in Indices(S) :
                                /\ S[k] = V[i]
                                /\ cleaned.rows[j]["sector"]
                                        = FirstMet(S, k, MostFrequent(S, k))

\* C11: in the normal branch a null text cell of a symbol that has a text is
\* filled with the most frequent text of that symbol, and among several most
\* frequent texts with the smallest in the order of the strings, wherever it
\* stands in the rows; a text cell that holds a value keeps it; a row whose
\* text is null in a symbol without any text is dropped.
C11_TieSmallest ==
    (pc = "cleaned" /\ cleaned.branch = "normal" /\ "sector" \in raw.cols) =>
        LET V == Survivors
        IN  \A i \in Indices(V) :
                (\A c \in raw.cols \ {"sector"} : ~IsNull(V[i][c])) =>
                    IF IsNull(V[i]["sector"]) /\ SymbolTexts(V, i) = {}
                    THEN OutputOf(V, i) = {}
                    ELSE /\ Cardinality(OutputOf(V, i)) = 1
                         /\ \A j \in OutputOf(V, i) :
                                cleaned.rows[j]["sector"] =
                                    IF IsNull(V[i]["sector"])
                                    THEN SmallestText(MostFrequent(V, i))
                                    ELSE V[i]["sector"]

\* a null text was filled in a symbol whose two texts are equally frequent
\* and whose first row, in the input and by date, holds the larger of them.
C11_Witness ==
    /\ pc = "cleaned"
    /\ cleaned.branch = "normal"
    /\ "sector" \in raw.cols
    /\ LET V == Survivors
       IN  \E i \in Indices(V) :
                /\ TextToFill(V, i)
                /\ Cardinality(MostFrequent(V, i)) = 2
                /\ FirstMet(V, i, MostFrequent(V, i)) = Str(2)
                /\ FirstMet(SortedRows(V), 1, MostFrequent(V, i)) = Str(2)
                /\ V[i]["ticker"] = SortedRows(V)[1]["ticker"]
                /\ \E j \in OutputOf(V, i) : cleaned.rows[j]["sector"] = Str(1)

\* the names of the columns of the table transform returned, and the cell of
\* the feature column of that name in output row i.
OutputColumns == cleaned.cols \cup {ColName(f) : f \in feat.fcols}
FeatureCell(i, name) ==
    feat.frows[i][CHOOSE f \in feat.fcols : ColName(f) = name]

SmaName(w) == "sma_" \o ToString(w)
AboveName(pr) == "sma_" \o ToString(pr[1]) \o "_above_" \o ToString(pr[2])
DiffName(pr) == "sma_" \o ToString(pr[1]) \o "_" \o ToString(pr[2]) \o "_diff"

\* on row i the flag of the pair is 1 exactly when its short average is
\* greater than its long one, and the gap is (short - long) / long, null
\* when an average is null or the long one is zero.
CrossoverRow(i, pr) ==
    LET a == FeatureCell(i, SmaName(pr[1]))
        b == FeatureCell(i, SmaName(pr[2]))
        flag == FeatureCell(i, AboveName(pr))
        gap == FeatureCell(i, DiffName(pr))
    IN  /\ flag \in {Num(0), Num(1)}
        /\ flag = Num(1) <=> (IsNum(a) /\ IsNum(b) /\ a.n * b.d > b.n * a.d)
        /\ IF IsNum(a) /\ IsNum(b) /\ b.n # 0
           THEN /\ IsNum(gap)
                /\ gap.n * (a.d * b.n) = gap.d * (a.n * b.d - b.n * a.d)
           ELSE IsNull(gap)

\* C12 as stated: whatever ma_windows is, the output of a non-empty table
\* has, for every pair of ma_pairs, the flag column and the gap column.
C12_EveryPairHasColumns ==
    (feat.status = "ok" /\ Len(cleaned.rows) > 0) =>
        \A k \in DOMAIN params.ma_pairs :
            /\ AboveName(params.ma_pairs[k]) \in OutputColumns
            /\ DiffName(params.ma_pairs[k]) \in OutputColumns

\* C12: the output of a non-empty table has the flag column and the gap
\* column of a pair of ma_pairs exactly when both windows of the pair are in
\* ma_windows; the flag is then 1 exactly when the short average is greater
\* than the long one and 0 otherwise, and the gap is (short - long) / long.
C12_PairsOfConfiguredWindows ==
    (feat.status = "ok" /\ Len(cleaned.rows) > 0) =>
        \A k \in DOMAIN params.ma_pairs :
            LET pr == params.ma_pairs[k]
            IN  IF \A w \in {pr[1], pr[2]} :
                        \E m \in DOMAIN params.ma_windows : params.ma_windows[m] = w
                THEN /\ AboveName(pr) \in OutputColumns
                     /\ DiffName(pr) \in OutputColumns
                     /\ \A i \in Indices(feat.frows) : CrossoverRow(i, pr)
                ELSE /\ AboveName(pr) \notin OutputColumns
                     /\ DiffName(pr) \notin OutputColumns

\* the short average is 6/5 of the long one on a row: the flag is 1 and the
\* gap 1/5; and a pair with a window outside ma_windows left no column.
C12_Witness ==
    /\ feat.status = "ok"
    /\ params.ma_pairs = <<(<<1, 2>>), (<<2, 3>>)>>
    /\ params.ma_windows = <<2, 3>>
    /\ AboveName(<<1, 2>>) \notin OutputColumns
    /\ \E i \in Indices(feat.frows) :
            /\ FeatureCell(i, "sma_2_above_3") = Num(1)
            /\ FeatureCell(i, "sma_2_3_diff") = [k |-> "num", n |-> 1, d |-> 5]

\* the first and the last row of a symbol in a sequence of rows.
FirstRowOf(rows, sym) ==
    CHOOSE i \in Indices(rows) :
        rows[i]["ticker"] = sym /\ \A j \in 1..(i - 1) : rows[j]["ticker"] # sym
LastRowOf(rows, sym) ==
    CHOOSE i \in Indices(rows) :
        rows[i]["ticker"] = sym /\ \A j \in (i + 1)..Len(rows) : rows[j]["ticker"] # sym
SymbolsOf(rows) == {rows[i]["ticker"] : i \in Indices(rows)}

\* the rows of every symbol are contiguous and in ascending date order.
SymbolMajor(rows) ==
    \A i, j \in Indices(rows) :
        (i < j /\ rows[i]["ticker"] = rows[j]["ticker"]) =>
            /\ \A m \in i..j : rows[m]["ticker"] = rows[i]["ticker"]
            /\ rows[i]["date"].n <= rows[j]["date"].n

\* C13 as stated: the output is symbol-major with ascending dates, and the
\* symbols follow one another as they first appear in the input.
C13_FirstAppearanceOrder ==
    feat.status = "ok" =>
        /\ SymbolMajor(feat.rows)
        /\ \A a, b \in SymbolsOf(feat.rows) :
                FirstRowOf(cleaned.rows, a) < FirstRowOf(cleaned.rows, b) =>
                    LastRowOf(feat.rows, a) < FirstRowOf(feat.rows, b)

\* C13: the output is symbol-major with ascending dates, and the symbols
\* follow one another in ascending order of the symbol, wherever each first
\* appears in the input.
C13_AscendingSymbolOrder ==
    feat.status = "ok" =>
        /\ SymbolMajor(feat.rows)
        /\ \A a, b \in SymbolsOf(feat.rows) :
                a.n < b.n => LastRowOf(feat.rows, a) < FirstRowOf(feat.rows, b)

\* the input lists a row of ticker 2 first and its dates out of order; the
\* output lists the rows of ticker 1 first.
C13_Witness ==
    /\ feat.status = "ok"
    /\ Len(cleaned.rows) >= 3
    /\ cleaned.rows[1]["ticker"] = Str(2)
    /\ \E i \in Indices(cleaned.rows) :
            i > 1 /\ cleaned.rows[i]["ticker"] = Str(1)
                /\ \E j \in (i + 1)..Len(cleaned.rows) :
                        /\ cleaned.rows[j]["ticker"] = Str(1)
                        /\ cleaned.rows[j]["date"].n < cleaned.rows[i]["date"].n
    /\ feat.rows[1]["ticker"] = Str(1)
    /\ feat.rows[Len(feat.rows)]["ticker"] = Str(2)

\* the rational q is p / r and the rational q is at most the rational p.
IsQuotient(q, p, r) == IsNum(q) /\ q.n * r = q.d * p
RatLE(q, p) == q.n * p.d <= p.n * q.d

\* the output rows of the trailing window of size w that ends at row i.
Trailing(i, w) == (i - w + 1)..i

\* C14: on every row the drawdown is (close - peak) / peak, the peak being
\* the highest close of the symbol up to and including the row, and null
\* when that peak is 0; with a positive peak it is never above 0, and 0
\* exactly when the close is the peak; max_drawdown_W is the smallest
\* drawdown of the W rows ending at the row, null on the first W-1 rows of
\* a symbol and when one of those drawdowns is null.
C14_DrawdownFromRunningPeak ==
    feat.status = "ok" =>
        \A i \in Indices(feat.frows) :
            LET dd == feat.frows[i][<<"drawdown", 0, 0>>]
                close == feat.rows[i]["close"]
                peak == PeakClose(i)
            IN  /\ IF peak.n = 0 THEN IsNull(dd)
                   ELSE /\ IsQuotient(dd, close.n - peak.n, peak.n)
                        /\ dd.n <= 0
                        /\ dd.n = 0 <=> close = peak
                /\ \A f \in {g \in feat.fcols : g[1] = "max_drawdown"} :
                        LET w == f[2]
                            md == feat.frows[i][f]
                            D == [j \in Trailing(i, w) |->
                                    IF j >= 1 THEN feat.frows[j][<<"drawdown", 0, 0>>]
                                    ELSE Null]
                        IN  IF Place(i) >= w /\ \A j \in Trailing(i, w) : IsNum(D[j])
                            THEN /\ \E j \in Trailing(i, w) : md = D[j]
                                 /\ \A j \in Trailing(i, w) : RatLE(md, D[j])
                            ELSE IsNull(md)

\* the closes 100, 120, 90, 110 gave the drawdowns 0, 0, -1/4, -1/12, and
\* the largest drawdown of the last two and of the last three rows is -1/4.
C14_Witness ==
    /\ feat.status = "ok"
    /\ Len(feat.rows) = 4
    /\ [i \in 1..4 |-> feat.rows[i]["close"].n] = <<100, 120, 90, 110>>
    /\ [i \in 1..4 |-> feat.frows[i][<<"drawdown", 0, 0>>]]
            = <<Num(0), Num(0), [k |-> "num", n |-> -1, d |-> 4],
                [k |-> "num", n |-> -1, d |-> 12]>>
    /\ feat.frows[4][<<"max_drawdown", 2, 0>>] = [k |-> "num", n |-> -1, d |-> 4]
    /\ feat.frows[4][<<"max_drawdown", 3, 0>>] = [k |-> "num", n |-> -1, d |-> 4]
    /\ IsNull(feat.frows[1][<<"max_drawdown", 2, 0>>])

\* the sum of the closes of the output rows J.
RECURSIVE CloseSum(_)
CloseSum(J) ==
    IF J = {} THEN 0
    ELSE LET j == CHOOSE m \in J : TRUE
         IN  feat.rows[j]["close"].n + CloseSum(J \ {j})

\* the close of output row j is above the mean of the w closes ending at
\* output row e.
AboveMeanEndingAt(j, e, w) == feat.rows[j]["close"].n * w > CloseSum(Trailing(e, w))

\* C18 as stated: from the W-th row of a symbol on, trend_persistence_W is
\* the share of the W rows ending at the row whose close is above the mean
\* of the W closes ending at that row.
C18_AboveWindowMean ==
    feat.status = "ok" =>
        \A i \in Indices(feat.frows) :
            \A f \in {g \in feat.fcols : g[1] = "trend_persistence"} :
                Place(i) >= f[2] =>
                    IsQuotient(feat.frows[i][f],
                               Cardinality({j \in Trailing(i, f[2]) :
                                                AboveMeanEndingAt(j, i, f[2])}),
                               f[2])

\* C18: from the W-th row of a symbol on, trend_persistence_W is the share
\* of the W rows ending at the row whose close is above the W-row moving
\* average ending on that same earlier row, a row among the first W-1 of
\* the symbol counting as not above; on the first W-1 rows it is null.
C18_AboveOwnMovingAverage ==
    feat.status = "ok" =>
        \A i \in Indices(feat.frows) :
            \A f \in {g \in feat.fcols : g[1] = "trend_persistence"} :
                IF Place(i) >= f[2]
                THEN IsQuotient(feat.frows[i][f],
                                Cardinality({j \in Trailing(i, f[2]) :
                                                /\ Place(j) >= f[2]
                                                /\ AboveMeanEndingAt(j, j, f[2])}),
                                f[2])
                ELSE IsNull(feat.frows[i][f])

\* three rising closes: on the third row both of the last two closes are
\* above their own 2-row average, and one of them is above the average of
\* the two.
C18_Witness ==
    /\ feat.status = "ok"
    /\ Len(feat.rows) = 3
    /\ feat.rows[1]["close"].n < feat.rows[2]["close"].n
    /\ feat.rows[2]["close"].n < feat.rows[3]["close"].n
    /\ feat.frows[3][<<"trend_persistence", 2, 0>>] = Num(1)
    /\ Cardinality({j \in Trailing(3, 2) : AboveMeanEndingAt(j, 3, 2)}) = 1
    /\ feat.frows[3][<<"trend_persistence", 3, 0>>] = [k |-> "num", n |-> 1, d |-> 3]

\* the rows as a bag: how often each row occurs.
Occurrences(rows, r) == Cardinality({i \in Indices(rows) : rows[i] = r})

\* C15: transform runs only once clean has returned a table, on the rows of
\* that table; output.csv is written only once both have returned, with the
\* table transform returned; a failed run has written nothing, and after a
\* failure of clean transform has not run.
C15_OrderAndAbort ==
    /\ feat.status # "none" => cleaned.status = "ok" /\ pc # "raw"
    /\ feat.status = "ok" =>
            /\ feat.cols = cleaned.cols
            /\ Len(feat.rows) = Len(cleaned.rows)
            /\ \A i \in Indices(cleaned.rows) :
                    Occurrences(feat.rows, cleaned.rows[i])
                        = Occurrences(cleaned.rows, cleaned.rows[i])
    /\ output.written =>
            /\ pc = "exported"
            /\ cleaned.status = "ok"
            /\ feat.status = "ok"
            /\ output.table = feat
    /\ pc = "failed" =>
            /\ ~output.written
            /\ cleaned.status = "SchemaError" \/ feat.status = "SchemaError"
    /\ cleaned.status = "SchemaError" => feat = NoFeatures /\ ~output.written
    /\ pc \in {"raw", "cleaned", "transformed"} => ~output.written

\* a run that dropped a row in clean has written the features of the rows
\* clean returned.
C15_Witness ==
    /\ pc = "exported"
    /\ output.written
    /\ Len(raw.rows) > Len(cleaned.rows)
    /\ Len(cleaned.rows) >= 2
    /\ Len(output.table.frows) = Len(cleaned.rows)

\* C16: clean run on a table with no row and the columns it requires
\* returns a table with no row and the same columns, under every
\* configuration; transform run on a table with no row and the columns it
\* requires returns it with the same columns, no row and no feature column;
\* neither raises.
C16_EmptyIsNoOp ==
    /\ (cleaned.status \in {"ok", "SchemaError"} /\ Len(raw.rows) = 0
            /\ {"ticker", "date", "open", "high", "low", "close"} \subseteq raw.cols) =>
            /\ cleaned.status = "ok"
            /\ cleaned.cols = raw.cols
            /\ Len(cleaned.rows) = 0
    /\ (feat.status # "none" /\ Len(cleaned.rows) = 0
            /\ {"ticker", "date", "open", "high", "low", "close", "volume"}
                    \subseteq cleaned.cols) =>
            /\ feat.status = "ok"
            /\ feat.cols = cleaned.cols
            /\ Len(feat.rows) = 0
            /\ feat.fcols = {}
            /\ Len(feat.frows) = 0

\* a table with no row went through clean and through transform and came
\* back with its columns and nothing else.
C16_Witness ==
    /\ pc = "transformed"
    /\ Len(raw.rows) = 0
    /\ {"x", "sector"} \subseteq raw.cols
    /\ cleaned.status = "ok"
    /\ cleaned.cols = raw.cols
    /\ feat.status = "ok"
    /\ feat.cols = raw.cols
    /\ feat.fcols = {}

\* every column of the table transform returned: those of its input, the
\* features the repository computes and those it takes from the ta library.
AllColumns == OutputColumns \cup LibraryCols(params)

BenchmarkNames == {"corr_to_benchmark_126", "excess_return_126"}

\* C17 as stated: the lookup returns one list for every horizon up to 30 and
\* another for every longer one, and every name of either list is a column
\* of the table transform returns without a benchmark.
C17_EveryNameIsAColumn ==
    (selected # <<>> /\ feat.status = "ok" /\ ~bench.present) =>
        /\ horizon <= 30 <=> selected[4] = "returns_21d"
        /\ horizon > 30 <=> selected[4] = "returns_63d"
        /\ \A k \in DOMAIN selected : selected[k] \in AllColumns

\* C17: the lookup returns one list of 28 names for every horizon up to 30
\* (30 included) and another of 31 names for every longer one; every name
\* of the first is a column of the table transform returns for a non-empty
\* table under the default parameters, and so is every name of the second
\* but corr_to_benchmark_126 and excess_return_126, which are columns
\* exactly when a benchmark is supplied.
C17_BenchmarkNamesNeedBenchmark ==
    selected # <<>> =>
        /\ SubSeq(selected, 1, 3) = <<"close", "volume", "returns_1d">>
        /\ IF horizon <= 30
           THEN /\ Len(selected) = 28
                /\ selected[4] = "returns_21d"
                /\ selected[28] = "trend_persistence_63"
                /\ \A k \in DOMAIN selected : selected[k] \notin BenchmarkNames
           ELSE /\ Len(selected) = 31
                /\ selected[4] = "returns_63d"
                /\ {selected[30], selected[31]} = BenchmarkNames
        /\ feat.status = "ok" =>
                /\ \A k \in DOMAIN selected :
                        selected[k] \notin BenchmarkNames => selected[k] \in AllColumns
                /\ \A name \in BenchmarkNames : name \in AllColumns <=> bench.present

\* the lookup was called with a horizon of 31 days and transform was run
\* without a benchmark: the list names corr_to_benchmark_126, which the
\* table does not have.
C17_Witness ==
    /\ horizon = 31
    /\ selected # <<>>
    /\ feat.status = "ok"
    /\ ~bench.present
    /\ selected[30] = "corr_to_benchmark_126"
    /\ "corr_to_benchmark_126" \notin AllColumns
    /\ "sma_50_above_200" \in AllColumns

\* C19: in the normal branch a surviving row whose volume is null comes
\* back with volume 0 when it has no other null, and every volume that is
\* not null comes back as it was; in the strict branch the volume column is
\* kept, no row with a null volume comes back and no volume is changed.
C19_VolumeZeroOrRowDropped ==
    (pc = "cleaned" /\ "volume" \in raw.cols) =>
        LET V == Survivors
        IN  /\ "volume" \in cleaned.cols
            /\ \A i \in Indices(V) : \A j \in OutputOf(V, i) :
                    cleaned.rows[j]["volume"] =
                        IF IsNull(V[i]["volume"]) THEN Num(0) ELSE V[i]["volume"]
            /\ \A i \in Indices(V) :
                    IsNull(V[i]["volume"]) =>
                        IF cleaned.branch = "strict" THEN OutputOf(V, i) = {}
                        ELSE (\A c \in raw.cols \ {"volume"} : ~IsNull(V[i][c]))
                                => Cardinality(OutputOf(V, i)) = 1

\* the normal branch returned, with volume 0, a row whose only null cell was
\* its volume.
C19_Witness ==
    /\ pc = "cleaned"
    /\ cleaned.branch = "normal"
    /\ "volume" \in raw.cols
    /\ LET V == Survivors
       IN  \E i \in Indices(V) :
                /\ IsNull(V[i]["volume"])
                /\ \A c \in raw.cols \ {"volume"} : ~IsNull(V[i][c])
                /\ \E j \in OutputOf(V, i) : cleaned.rows[j]["volume"] = Num(0)

=============================================================================
